---------------------------- MODULE Spec2Model ----------------------------
(***************************************************************************)
(* Speech-to-speech translation backend: the Pipeline Coordinator and the  *)
(* Stream Session Manager (TranslationPipeline) and the Connection Gateway *)
(* (TranslationWebSocketHandler), as one cooperative-scheduler state       *)
(* machine.  Every action is one run of a coroutine between two            *)
(* suspension points (awaited adapter calls).                              *)
(***************************************************************************)
EXTENDS Integers, Sequences, FiniteSets, TLC

(***************************************************************************)
(* Bounds of the model and program constants                               *)
(***************************************************************************)
\* clock seconds run 0..MaxTime (int(time.time()))
MaxTime == 1
\* cap on performance_metrics["total_requests"]
MaxRequests == 2
\* cap on a session's chunk_count under REST-side callers
MaxChunks == 5
\* cap on a session's chunk_count under the gateway
GwMaxChunks == 6

\* config.py: MAX_CONCURRENT_STREAMS (environment-configured ceiling)
MAX_CONCURRENT_STREAMS == 2
\* translation_pipeline.py: "if len(session["buffer"]) >= 5"
FLUSH_THRESHOLD == 5

\* REST-side callers of the pipeline, each one coroutine at a time
Clients == {"c1", "c2"}
\* user ids
Users == {"u1", "u2"}
\* elapsed times (ms) a pass may take: within and over the 400 ms target
Latencies == {100, 500}
\* gateway connections, each served by one handle_connection coroutine
Conns == {"k1", "k2"}
\* the coroutine of the idle sweep
Sweeper == "sweeper"
\* one task per coroutine that may call into the pipeline
Tasks == Clients \cup Conns \cup {Sweeper}

VARIABLES
    now,              \* int(time.time())
    is_initialized,   \* TranslationPipeline.is_initialized
    init_pc,          \* position of the initialize() coroutine
    active_streams,   \* TranslationPipeline.active_streams: session id -> session
    metrics,          \* TranslationPipeline.performance_metrics
    frame,            \* per task: the pipeline call it is suspended in, if any
    last,             \* the return the latest step made to a caller, if it made one
    active_connections, \* TranslationWebSocketHandler.active_connections
    user_sessions,    \* TranslationWebSocketHandler.user_sessions: user id -> connection id
    hpc,              \* per connection: where its handle_connection coroutine stands
    sent,             \* the messages the latest step sent to clients, in order
    room_connections,     \* VSPresenterWebSocketHandler.active_connections
    presentation_rooms,   \* VSPresenterWebSocketHandler.presentation_rooms
    room_participants,    \* VSPresenterWebSocketHandler.room_participants
    participant_languages, \* VSPresenterWebSocketHandler.participant_languages
    muted_participants,   \* VSPresenterWebSocketHandler.muted_participants
    raised_hands,         \* VSPresenterWebSocketHandler.raised_hands
    presenter_connections, \* VSPresenterWebSocketHandler.presenter_connections
    last_activity,    \* per connection: connection["last_activity"], in clock seconds
    sweep,            \* the cleanup_inactive_connections coroutine
    quality           \* the latest _calculate_quality_score call: arguments and value

\* the pipeline's state and the gateway's
pvars == <<now, is_initialized, init_pc, active_streams, metrics, frame, last>>
gvars == <<active_connections, user_sessions, hpc, sent>>
\* the presentation rooms' state
rvars == <<room_connections, presentation_rooms, room_participants,
           participant_languages, muted_participants, raised_hands,
           presenter_connections>>
\* the idle sweep's state
svars == <<last_activity, sweep>>
vars == <<pvars, gvars, rvars, svars, quality>>

(***************************************************************************)
(* Values                                                                  *)
(***************************************************************************)
\* f"stream_{user_id}_{int(time.time())}"
SessionId(user_id, t) == <<user_id, t>>

SessionIds == Users \X (0..MaxTime)

\* a session id no session ever has
NoSession == <<"none", 0>>

\* b"".join(buffer)
RECURSIVE Join(_)
Join(buffer) ==
    IF buffer = <<>> THEN <<>> ELSE Head(buffer) \o Join(Tail(buffer))

\* Python's None where a PipelineResult may stand
None == [success |-> FALSE, error |-> "None", total_time_ms |-> 0]

\* the successful result dict of process_speech_to_speech
SuccessResult(total_time) ==
    [success |-> TRUE, error |-> "", total_time_ms |-> total_time]

\* _create_error_result
_create_error_result(error_message, total_time) ==
    [success |-> FALSE, error |-> error_message, total_time_ms |-> total_time]

\* what a call gave its caller
\*   kind: "none" (nothing yet), "raised" (exception error), "session" (open's id),
\*         "buffering", "result" (a PipelineResult), "closed" (close's dict),
\*         "true" / "false" (initialize's bool)
Ret(kind, error, sid, result, chunks) ==
    [kind |-> kind, error |-> error, session_id |-> sid,
     result |-> result, chunks_processed |-> chunks]

NoRet == Ret("none", "", NoSession, None, 0)
Raised(error) == Ret("raised", error, NoSession, None, 0)
Buffering == Ret("buffering", "", NoSession, None, 0)

\* a task that is in no pipeline call
IdleFrame ==
    [op |-> "none", pc |-> "idle", sid |-> NoSession, audio |-> <<>>,
     lip |-> FALSE, invoked |-> {}, chunks |-> 0]

Free(t) == frame[t].pc = "idle"

\* the record of a return: operation op on session sid, having called the
\* adapter stages `invoked`, gave `ret`
Returned(op, sid, invoked, ret) ==
    [op |-> op, sid |-> sid, invoked |-> invoked, ret |-> ret]

\* the step returned nothing to any caller
NoReturn == Returned("none", NoSession, {}, NoRet)

\* the frame of a call suspended in the Coordinator's first adapter call
InSpeech(op, sid, audio, lip, chunks) ==
    [op |-> op, pc |-> "stt", sid |-> sid, audio |-> audio,
     lip |-> lip, invoked |-> {"stt"}, chunks |-> chunks]

Remove(streams, sid) == [s \in DOMAIN streams \ {sid} |-> streams[s]]

\* a dict with no key
EmptyMap == [x \in {} |-> x]

\* the value cleanup_inactive_connections has not returned yet
NoCount == -1
\* no sweep is running: `inactive` and `returned` are those of the latest one,
\* and `sessions` the session ids its cleanups found stored in the connections
\* they cleaned up, when they closed the session and when they removed the
\* record
IdleSweep ==
    [pc |-> "idle", inactive |-> <<>>, i |-> 1, returned |-> NoCount, sessions |-> {}]

\* _calculate_quality_score has not been called
NoQuality ==
    [called |-> FALSE, stt_confidence |-> 0, translation_confidence |-> 0,
     voice_quality |-> 0, score |-> 0]

Init ==
    /\ now = 0
    /\ is_initialized = FALSE
    /\ init_pc = "idle"
    /\ active_streams = EmptyMap
    /\ metrics = [total_requests |-> 0, successful_requests |-> 0,
                  average_latency_ms |-> 0, active_streams |-> 0]
    /\ frame = [t \in Tasks |-> IdleFrame]
    /\ last = NoReturn
    /\ active_connections = EmptyMap
    /\ user_sessions = EmptyMap
    /\ hpc = [k \in Conns |-> "closed"]
    /\ sent = <<>>
    /\ room_connections = EmptyMap
    /\ presentation_rooms = EmptyMap
    /\ room_participants = EmptyMap
    /\ participant_languages = EmptyMap
    /\ muted_participants = EmptyMap
    /\ raised_hands = EmptyMap
    /\ presenter_connections = EmptyMap
    /\ last_activity = [k \in Conns |-> 0]
    /\ sweep = IdleSweep
    /\ quality = NoQuality

\* time.time() advances
Tick ==
    /\ now < MaxTime
    /\ now' = now + 1
    /\ last' = NoReturn
    /\ UNCHANGED <<is_initialized, init_pc, active_streams, metrics, frame>>

(***************************************************************************)
(* TranslationPipeline.initialize                                          *)
(***************************************************************************)
\* what an adapter's initialize() gives asyncio.gather(return_exceptions=True)
InitResults == {"true", "false", "raise"}

\* WunjoCEService.verify_model_versions: every loaded version is read back
\* from the pinned manifest it is compared with
verify_model_versions == TRUE

\* initialize() up to "await asyncio.gather(*init_tasks, ...)": called at
\* startup, and again by a caller that finds the pipeline not initialized
initialize_start ==
    /\ init_pc = "idle" \/ (init_pc = "done" /\ ~is_initialized)
    /\ init_pc' = "gather"
    /\ last' = NoReturn
    /\ UNCHANGED <<now, is_initialized, active_streams, metrics, frame>>

\* what initialize() gives its caller: True or False
InitializeReturns(ok) ==
    Returned("initialize", NoSession, {},
             Ret(IF ok THEN "true" ELSE "false", "", NoSession, None, 0))

\* (variant: the speech-recognition adapter's result is not looked at)
initialize_finish_skips_whisper(wunjo, whisper, translate) ==
    /\ init_pc = "gather"
    /\ init_pc' = "done"
    /\ LET ok == wunjo = "true" /\ translate = "true" /\ verify_model_versions
       IN /\ is_initialized' = (is_initialized \/ ok)
          /\ last' = InitializeReturns(ok)
    /\ UNCHANGED <<now, active_streams, metrics, frame>>

\* initialize() from the gathered results to its return: the first result
\* that is an exception or falsy returns False, then a failed version check
\* returns False, and only after both is is_initialized set
initialize_finish(wunjo, whisper, translate) ==
    /\ init_pc = "gather"
    /\ init_pc' = "done"
    /\ LET ok == /\ \A r \in {wunjo, whisper, translate} : r = "true"
                 /\ verify_model_versions
       IN /\ is_initialized' = (is_initialized \/ ok)
          /\ last' = InitializeReturns(ok)
    /\ UNCHANGED <<now, active_streams, metrics, frame>>

(***************************************************************************)
(* TranslationPipeline._calculate_quality_score                            *)
(***************************************************************************)
\* The floats are held in fixed point: a component in tenths, a weight in
\* tenths, and the score in hundredths.
\* the component values the adapters may report: -0.5, 0, 0.3, 0.5, 1, 1.5
Components == {-5, 0, 3, 5, 10, 15}

\* weights = {"stt": 0.3, "translation": 0.4, "voice": 0.3}
weights == [stt |-> 3, translation |-> 4, voice |-> 3]

\* the floats 0.0 and 1.0
Zero == 0
One == 100

\* Python's max(a, b) and min(a, b): the first argument unless the second is
\* strictly greater (smaller)
max(a, b) == IF b > a THEN b ELSE a
min(a, b) == IF b < a THEN b ELSE a

\* (variant: the score is returned without the clamp)
_calculate_quality_score_unclamped(stt_confidence, translation_confidence, voice_quality) ==
    stt_confidence * weights.stt
        + translation_confidence * weights.translation
        + voice_quality * weights.voice

_calculate_quality_score(stt_confidence, translation_confidence, voice_quality) ==
    LET score == stt_confidence * weights.stt
                    + translation_confidence * weights.translation
                    + voice_quality * weights.voice
    IN min(One, max(Zero, score))

\* a call of _calculate_quality_score and its value
calculate_quality(stt_confidence, translation_confidence, voice_quality) ==
    quality' = [called |-> TRUE, stt_confidence |-> stt_confidence,
                translation_confidence |-> translation_confidence,
                voice_quality |-> voice_quality,
                score |-> _calculate_quality_score(
                    stt_confidence, translation_confidence, voice_quality)]

(***************************************************************************)
(* Stream Session Manager                                                  *)
(***************************************************************************)
\* task t's call returns (or raises): the task is free again
Return(t, returned) ==
    /\ frame' = [frame EXCEPT ![t] = IdleFrame]
    /\ last' = returned

\* (variant: the readiness check is left out)
ReadyAssumed == FALSE

\* "if not self.is_initialized: raise RuntimeError(...)"
NotReady == ~is_initialized

\* (variant: the ceiling test is off by one)
AtCapacityLate(streams) == Cardinality(DOMAIN streams) > MAX_CONCURRENT_STREAMS

\* "if len(self.active_streams) >= MAX_CONCURRENT_STREAMS"
AtCapacity(streams) == Cardinality(DOMAIN streams) >= MAX_CONCURRENT_STREAMS

\* (variant: the flush test is off by one)
ReachedThresholdLate(buffer) == Len(buffer) > FLUSH_THRESHOLD

\* "if len(session["buffer"]) >= 5"
ReachedThreshold(buffer) == Len(buffer) >= FLUSH_THRESHOLD

\* (variant: close flushes a full buffer only)
HasRemainderWhenFull(session) == Len(session.buffer) >= FLUSH_THRESHOLD

\* "if session["buffer"]" in close_stream_session
HasRemainder(session) == session.buffer # <<>>

\* (variant: a new session counts from one)
NewSessionCountsFromOne(user_id) == [user_id |-> user_id, chunk_count |-> 1, buffer |-> <<>>]

NewSession(user_id) == [user_id |-> user_id, chunk_count |-> 0, buffer |-> <<>>]

\* create_stream_session: no suspension point, one step
create_stream_session(t, user_id) ==
    /\ Free(t)
    /\ UNCHANGED <<now, is_initialized, init_pc>>
    /\ IF NotReady
       THEN /\ Return(t, Returned("open", NoSession, {}, Raised("not initialized")))
            /\ UNCHANGED <<active_streams, metrics>>
       ELSE IF AtCapacity(active_streams)
       THEN /\ Return(t, Returned("open", NoSession, {}, Raised("capacity")))
            /\ UNCHANGED <<active_streams, metrics>>
       ELSE LET session_id == SessionId(user_id, now) IN
            /\ active_streams' =
                   [s \in DOMAIN active_streams \cup {session_id} |->
                       IF s = session_id THEN NewSession(user_id)
                       ELSE active_streams[s]]
            /\ metrics' = [metrics EXCEPT !.active_streams =
                              Cardinality(DOMAIN active_streams')]
            /\ Return(t, Returned("open", session_id, {},
                                   Ret("session", "", session_id, None, 0)))

\* process_speech_to_speech from its entry to "await transcribe_audio", called
\* by task t for operation op with the metrics m as they stand: the readiness
\* check, total_requests += 1, the first adapter call
ProcessEntry(t, op, sid, audio, lip, chunks, m) ==
    IF NotReady
    THEN /\ Return(t, Returned(op, sid, {}, Raised("not initialized")))
         /\ metrics' = m
    ELSE /\ metrics' = [m EXCEPT !.total_requests = @ + 1]
         /\ frame' = [frame EXCEPT ![t] = InSpeech(op, sid, audio, lip, chunks)]
         /\ last' = NoReturn

\* process_stream_chunk up to its return or to the flush's first adapter call
process_stream_chunk(t, session_id, audio_chunk) ==
    /\ Free(t)
    /\ UNCHANGED <<now, is_initialized, init_pc>>
    /\ IF session_id \notin DOMAIN active_streams
       THEN /\ Return(t, Returned("push", session_id, {}, Raised("invalid session")))
            /\ UNCHANGED <<active_streams, metrics>>
       ELSE LET session == active_streams[session_id]
                buffer == Append(session.buffer, audio_chunk)
                count == session.chunk_count + 1
            IN  IF ReachedThreshold(buffer)
                THEN /\ active_streams' = [active_streams EXCEPT ![session_id] =
                            [session EXCEPT !.chunk_count = count, !.buffer = <<>>]]
                     /\ ProcessEntry(t, "push", session_id, Join(buffer), FALSE, 0,
                                     metrics)
                ELSE /\ active_streams' = [active_streams EXCEPT ![session_id] =
                            [session EXCEPT !.chunk_count = count, !.buffer = buffer]]
                     /\ Return(t, Returned("push", session_id, {}, Buffering))
                     /\ UNCHANGED metrics

\* close_stream_session up to its return or to the final flush's first adapter call
close_stream_session(t, session_id) ==
    /\ Free(t)
    /\ UNCHANGED <<now, is_initialized, init_pc>>
    /\ IF session_id \notin DOMAIN active_streams
       THEN /\ Return(t, Returned("close", session_id, {}, Raised("invalid session")))
            /\ UNCHANGED <<active_streams, metrics>>
       ELSE LET session == active_streams[session_id]
                streams == Remove(active_streams, session_id)
                counted == [metrics EXCEPT !.active_streams =
                               Cardinality(DOMAIN streams)]
            IN  /\ active_streams' = streams
                /\ IF HasRemainder(session)
                   THEN ProcessEntry(t, "close", session_id, Join(session.buffer),
                                     FALSE, session.chunk_count, counted)
                   ELSE /\ metrics' = counted
                        /\ Return(t, Returned("close", session_id, {},
                                  Ret("closed", "", session_id, None,
                                      session.chunk_count)))

(***************************************************************************)
(* Pipeline Coordinator: process_speech_to_speech                          *)
(***************************************************************************)
\* a direct call
process_speech_to_speech(t, audio_data, include_lip_sync, face_image) ==
    /\ Free(t)
    /\ ProcessEntry(t, "process", NoSession, audio_data,
                    include_lip_sync /\ face_image # <<>>, 0, metrics)
    /\ UNCHANGED <<now, is_initialized, init_pc, active_streams>>

\* _update_average_latency, after successful_requests was incremented; the
\* average is kept in units of 1/Scale ms, which holds every value exactly
Scale == 10 ^ MaxRequests

\* (variant: the first successful call is smoothed like the later ones)
_update_average_latency_smooths_first(m, new_latency) ==
    [m EXCEPT !.average_latency_ms = (new_latency * Scale + 9 * @) \div 10]

_update_average_latency(m, new_latency) ==
    IF m.successful_requests = 1
    THEN [m EXCEPT !.average_latency_ms = new_latency * Scale]
    ELSE [m EXCEPT !.average_latency_ms = (new_latency * Scale + 9 * @) \div 10]

\* the frame of task t once its Coordinator pass has produced `result`:
\* process and process_stream_chunk return it, close_stream_session wraps it
Deliver(f, result) ==
    Returned(f.op, f.sid, f.invoked,
             IF f.op = "close"
             THEN Ret("closed", "", f.sid, result, f.chunks)
             ELSE Ret("result", "", f.sid, result, 0))

\* (variant: the exception of a stage reaches the caller)
FailRaises(t, error_message, total_time) ==
    /\ Return(t, Returned(frame[t].op, frame[t].sid, frame[t].invoked,
                          Raised(error_message)))
    /\ UNCHANGED metrics

\* "except Exception as e: return self._create_error_result(str(e), start_time)"
Fail(t, error_message, total_time) ==
    /\ Return(t, Deliver(frame[t], _create_error_result(error_message, total_time)))
    /\ UNCHANGED metrics

\* the end of the try block: the success metrics and the result
Succeed(t, total_time) ==
    /\ metrics' = _update_average_latency(
           [metrics EXCEPT !.successful_requests = @ + 1], total_time)
    /\ Return(t, Deliver(frame[t], SuccessResult(total_time)))

\* calling the next adapter and suspending in it
Invoke(t, stage, also) ==
    /\ frame' = [frame EXCEPT ![t].pc = stage, ![t].audio = <<>>,
                              ![t].invoked = @ \cup {stage} \cup also]
    /\ last' = NoReturn
    /\ UNCHANGED metrics

\* (variant: blank text is taken for speech)
NoSpeechNever(outcome) == FALSE

\* "if not source_text.strip()"
NoSpeech(outcome) == outcome = "blank"

\* whisper_service.transcribe_audio returns or raises; outcome is "text"
\* (speech was found), "blank" (text empty after strip()) or "raise"
transcribe_returns(t, outcome, total_time) ==
    /\ frame[t].pc = "stt"
    /\ UNCHANGED <<now, is_initialized, init_pc, active_streams>>
    /\ IF outcome = "raise"
       THEN Fail(t, "speech adapter", total_time)
       ELSE IF NoSpeech(outcome)
       THEN Fail(t, "No speech detected in audio", total_time)
       ELSE Invoke(t, "translate", {})

\* translate_service.translate_text returns or raises; optimize_for_speech has no
\* suspension point and swallows its own errors, so clone_voice is called next
translate_returns(t, outcome, total_time) ==
    /\ frame[t].pc = "translate"
    /\ UNCHANGED <<now, is_initialized, init_pc, active_streams>>
    /\ IF outcome = "raise"
       THEN Fail(t, "translation adapter", total_time)
       ELSE Invoke(t, "tts", {"optimize"})

\* wunjo_service.clone_voice returns or raises
clone_voice_returns(t, outcome, total_time) ==
    /\ frame[t].pc = "tts"
    /\ UNCHANGED <<now, is_initialized, init_pc, active_streams>>
    /\ IF outcome = "raise"
       THEN Fail(t, "voice adapter", total_time)
       ELSE IF frame[t].lip
       THEN Invoke(t, "lipsync", {})
       ELSE Succeed(t, total_time)

\* wunjo_service.generate_lip_sync returns or raises
generate_lip_sync_returns(t, outcome, total_time) ==
    /\ frame[t].pc = "lipsync"
    /\ UNCHANGED <<now, is_initialized, init_pc, active_streams>>
    /\ IF outcome = "raise"
       THEN Fail(t, "lip sync", total_time)
       ELSE Succeed(t, total_time)

\* inputs of a direct process call
Audios == {<<1>>}
FaceImages == {<<>>, <<7>>}

\* the chunks of a session are numbered as they arrive, which makes their
\* order visible in the audio the Coordinator is given
NextChunk(session_id) ==
    IF session_id \in DOMAIN active_streams
    THEN <<active_streams[session_id].chunk_count + 1>>
    ELSE <<1>>

(***************************************************************************)
(* Connection Gateway: TranslationWebSocketHandler                         *)
(***************************************************************************)
\* connection["user_id"] before authentication
NoUser == "None"

\* a message to the client of connection k; `result` is the PipelineResult a
\* translation_result or a stream_ended's final_translation is built from
Msg(k, type, error, session_id, result, chunks) ==
    [to |-> k, type |-> type, error |-> error, session_id |-> session_id,
     result |-> result, chunks_processed |-> chunks]

\* _send_error
ErrorMsg(k, error_message) == Msg(k, "error", error_message, NoSession, None, 0)

Connected(k) == k \in DOMAIN active_connections

\* handle_connection up to its first wait for a message
handle_connection(k) ==
    /\ hpc[k] = "closed"
    /\ ~Connected(k)
    /\ active_connections' =
           [c \in DOMAIN active_connections \cup {k} |->
               IF c = k THEN [user_id |-> NoUser, session_id |-> NoSession]
               ELSE active_connections[c]]
    /\ hpc' = [hpc EXCEPT ![k] = "recv"]
    /\ sent' = <<Msg(k, "connection_established", "", NoSession, None, 0)>>
    /\ last' = NoReturn
    /\ UNCHANGED <<now, is_initialized, init_pc, active_streams, metrics, frame,
                   user_sessions>>

\* a message the handler answers without touching any state: invalid JSON, an
\* unknown type (both answered with an error), or a ping (answered with a pong)
handle_plain_message(k, what) ==
    /\ hpc[k] = "recv"
    /\ Connected(k)
    /\ sent' = CASE what = "ping" -> <<Msg(k, "pong", "", NoSession, None, 0)>>
                 [] what = "bad json" -> <<ErrorMsg(k, "Invalid JSON message")>>
                 [] OTHER -> <<ErrorMsg(k, "Unknown message type")>>
    /\ last' = NoReturn
    /\ UNCHANGED <<now, is_initialized, init_pc, active_streams, metrics, frame,
                   active_connections, user_sessions, hpc>>

\* _handle_authenticate; user_id is NoUser when user_id or token is missing
_handle_authenticate(k, user_id) ==
    /\ hpc[k] = "recv"
    /\ Connected(k)
    /\ last' = NoReturn
    /\ UNCHANGED <<now, is_initialized, init_pc, active_streams, metrics, frame, hpc>>
    /\ IF user_id = NoUser
       THEN /\ sent' = <<ErrorMsg(k, "Missing user_id or token")>>
            /\ UNCHANGED <<active_connections, user_sessions>>
       ELSE /\ active_connections' = [active_connections EXCEPT ![k].user_id = user_id]
            /\ user_sessions' =
                   [u \in DOMAIN user_sessions \cup {user_id} |->
                       IF u = user_id THEN k ELSE user_sessions[u]]
            /\ sent' = <<Msg(k, "authenticated", "", NoSession, None, 0)>>

\* (variant: the stream is started without looking at the user id)
_handle_start_stream_unauthenticated(k, complete) ==
    /\ hpc[k] = "recv"
    /\ Connected(k)
    /\ UNCHANGED <<user_sessions, hpc>>
    /\ IF ~complete
       THEN /\ sent' = <<ErrorMsg(k, "Missing voice_profile or target_language")>>
            /\ last' = NoReturn
            /\ UNCHANGED <<now, is_initialized, init_pc, active_streams, metrics,
                           frame, active_connections>>
       ELSE /\ create_stream_session(k, active_connections[k].user_id)
            /\ IF last'.ret.kind = "raised"
               THEN /\ sent' = <<ErrorMsg(k, "Failed to start stream")>>
                    /\ UNCHANGED active_connections
               ELSE /\ active_connections' =
                           [active_connections EXCEPT ![k].session_id = last'.sid]
                    /\ sent' = <<Msg(k, "stream_started", "", last'.sid, None, 0)>>

\* _handle_start_stream; complete is whether voice_profile and target_language
\* are both given
_handle_start_stream(k, complete) ==
    /\ hpc[k] = "recv"
    /\ Connected(k)
    /\ UNCHANGED <<user_sessions, hpc>>
    /\ IF active_connections[k].user_id = NoUser \/ ~complete
       THEN /\ sent' = <<ErrorMsg(k, IF active_connections[k].user_id = NoUser
                                     THEN "Not authenticated"
                                     ELSE "Missing voice_profile or target_language")>>
            /\ last' = NoReturn
            /\ UNCHANGED <<now, is_initialized, init_pc, active_streams, metrics,
                           frame, active_connections>>
       ELSE /\ create_stream_session(k, active_connections[k].user_id)
            /\ IF last'.ret.kind = "raised"
               THEN /\ sent' = <<ErrorMsg(k, "Failed to start stream")>>
                    /\ UNCHANGED active_connections
               ELSE /\ active_connections' =
                           [active_connections EXCEPT ![k].session_id = last'.sid]
                    /\ sent' = <<Msg(k, "stream_started", "", last'.sid, None, 0)>>

\* the except branches of a handler and of _handle_message look the connection
\* up again to report the error; when it is gone the KeyError reaches
\* handle_connection, which reports it and runs _cleanup_connection, which
\* finds no connection
ReportError(k, error_message) ==
    IF Connected(k)
    THEN /\ sent' = <<ErrorMsg(k, error_message)>>
         /\ hpc' = [hpc EXCEPT ![k] = "recv"]
    ELSE /\ sent' = <<ErrorMsg(k, "Connection error")>>
         /\ hpc' = [hpc EXCEPT ![k] = "closed"]

\* (variant: a failed flush ends the connection's stream)
audio_chunk_result_ends_stream(k, returned) ==
    /\ UNCHANGED user_sessions
    /\ hpc' = [hpc EXCEPT ![k] = "recv"]
    /\ sent' = <<>>
    /\ active_connections' =
           IF returned.ret.kind = "result" /\ ~returned.ret.result.success
           THEN [active_connections EXCEPT ![k].session_id = NoSession]
           ELSE active_connections

\* _handle_audio_chunk from the return of process_stream_chunk
audio_chunk_result(k, returned) ==
    /\ UNCHANGED <<active_connections, user_sessions>>
    /\ IF returned.ret.kind = "raised"
       THEN ReportError(k, "Audio processing failed")
       ELSE /\ hpc' = [hpc EXCEPT ![k] = "recv"]
            /\ sent' = IF returned.ret.kind = "result" /\ returned.ret.result.success
                       THEN <<Msg(k, "translation_result", "", returned.sid,
                                  returned.ret.result, 0)>>
                       ELSE <<>>

\* the audio_data field of an audio_chunk message: absent or empty, base64
\* text, text whose count of base64 characters does not fit the padding, or
\* base64 text with characters outside the alphabet among it
AudioFields == {"missing", "valid", "bad padding", "stray characters"}

\* base64.b64decode(audio_b64) returns bytes: called without validate=True it
\* discards every character outside the alphabet and raises only when what
\* is left does not fit the padding
b64decodes(audio_b64) == audio_b64 \in {"valid", "stray characters"}

\* _handle_audio_chunk up to the return of process_stream_chunk or to its
\* first suspension
_handle_audio_chunk(k, audio_data) ==
    /\ hpc[k] = "recv"
    /\ Connected(k)
    /\ IF active_connections[k].session_id = NoSession \/ ~b64decodes(audio_data)
       THEN /\ sent' = <<ErrorMsg(k,
                          IF active_connections[k].session_id = NoSession
                          THEN "No active stream session"
                          ELSE IF audio_data = "missing" THEN "Missing audio_data"
                          ELSE "Invalid base64 audio data")>>
            /\ last' = NoReturn
            /\ UNCHANGED <<now, is_initialized, init_pc, active_streams, metrics,
                           frame, active_connections, user_sessions, hpc>>
       ELSE LET session_id == active_connections[k].session_id IN
            /\ process_stream_chunk(k, session_id, NextChunk(session_id))
            /\ IF frame'[k].pc # "idle"
               THEN /\ hpc' = [hpc EXCEPT ![k] = "push"]
                    /\ sent' = <<>>
                    /\ UNCHANGED <<active_connections, user_sessions>>
               ELSE audio_chunk_result(k, last')

\* _handle_end_stream from the return of close_stream_session
end_stream_result(k, returned) ==
    /\ UNCHANGED user_sessions
    /\ IF returned.ret.kind = "raised"
       THEN /\ ReportError(k, "Failed to end stream")
            /\ UNCHANGED active_connections
       ELSE /\ hpc' = [hpc EXCEPT ![k] = "recv"]
            /\ sent' = <<Msg(k, "stream_ended", "", returned.sid,
                             returned.ret.result, returned.ret.chunks_processed)>>
            /\ IF Connected(k)
               THEN active_connections' =
                        [active_connections EXCEPT ![k].session_id = NoSession]
               ELSE UNCHANGED active_connections

\* _handle_end_stream up to the return of close_stream_session or to its
\* first suspension
_handle_end_stream(k) ==
    /\ hpc[k] = "recv"
    /\ Connected(k)
    /\ IF active_connections[k].session_id = NoSession
       THEN /\ sent' = <<ErrorMsg(k, "No active stream session")>>
            /\ last' = NoReturn
            /\ UNCHANGED <<now, is_initialized, init_pc, active_streams, metrics,
                           frame, active_connections, user_sessions, hpc>>
       ELSE /\ close_stream_session(k, active_connections[k].session_id)
            /\ IF frame'[k].pc # "idle"
               THEN /\ hpc' = [hpc EXCEPT ![k] = "end"]
                    /\ sent' = <<>>
                    /\ UNCHANGED <<active_connections, user_sessions>>
               ELSE end_stream_result(k, last')

\* (variant: the connection record is left in the table)
cleanup_finish_keeps_record(k) ==
    /\ hpc' = [hpc EXCEPT ![k] = "closed"]
    /\ sent' = <<>>
    /\ UNCHANGED <<active_connections, user_sessions>>

\* _cleanup_connection from the close of the connection's session: the user
\* mapping and the connection record go
cleanup_finish(k) ==
    /\ hpc' = [hpc EXCEPT ![k] = "closed"]
    /\ sent' = <<>>
    /\ IF Connected(k)
       THEN LET user_id == active_connections[k].user_id IN
            /\ user_sessions' =
                   IF user_id \in DOMAIN user_sessions /\ user_sessions[user_id] = k
                   THEN Remove(user_sessions, user_id)
                   ELSE user_sessions
            /\ active_connections' = Remove(active_connections, k)
       ELSE UNCHANGED <<active_connections, user_sessions>>

\* the transport of connection k closes while its handler waits for a message:
\* _cleanup_connection up to its end or to the close's first suspension
_cleanup_connection(k) ==
    /\ hpc[k] = "recv"
    /\ IF Connected(k) /\ active_connections[k].session_id # NoSession
       THEN /\ close_stream_session(k, active_connections[k].session_id)
            /\ IF frame'[k].pc # "idle"
               THEN /\ hpc' = [hpc EXCEPT ![k] = "cleanup"]
                    /\ sent' = <<>>
                    /\ UNCHANGED <<active_connections, user_sessions>>
               ELSE cleanup_finish(k)
       ELSE /\ cleanup_finish(k)
            /\ last' = NoReturn
            /\ UNCHANGED <<now, is_initialized, init_pc, active_streams, metrics, frame>>

\* the handler of connection k after a step of the Coordinator pass it awaits:
\* it stays suspended, or goes on from the await it was in
Resume(k) ==
    IF frame'[k].pc # "idle"
    THEN /\ sent' = <<>>
         /\ UNCHANGED <<active_connections, user_sessions, hpc>>
    ELSE CASE hpc[k] = "push" -> audio_chunk_result(k, last')
           [] hpc[k] = "end" -> end_stream_result(k, last')
           [] OTHER -> cleanup_finish(k)

(***************************************************************************)
(* Idle sweep: TranslationWebSocketHandler.cleanup_inactive_connections    *)
(*                                                                         *)
(* The scan is one step and the cleanup of each scanned connection is a    *)
(* step of its own.  The code lets other coroutines run between two        *)
(* cleanups only where the close of a session is suspended in an adapter   *)
(* call: the specifications of the sweep let a connection's handler run    *)
(* only where SweepYields holds.                                           *)
(***************************************************************************)
\* the orders in which the scan can meet the connections: the table keeps
\* them in the order of their registration
ScanOrders == {<<"k1", "k2">>, <<"k2", "k1">>}

\* "if current_time - conn['last_activity'] > timeout_seconds"
Inactive(k, timeout_seconds) ==
    Connected(k) /\ now - last_activity[k] > timeout_seconds

\* the session id connection k stores, if it stores one
StoredSession(k) ==
    IF Connected(k) /\ active_connections[k].session_id # NoSession
    THEN {active_connections[k].session_id}
    ELSE {}

\* cleanup_inactive_connections up to the end of its scan
cleanup_inactive_connections(order, timeout_seconds) ==
    /\ sweep.pc = "idle"
    /\ LET inactive_connections ==
               SelectSeq(order, LAMBDA k : Inactive(k, timeout_seconds))
       IN  sweep' = IF inactive_connections = <<>>
                    THEN [IdleSweep EXCEPT !.returned = 0]
                    ELSE [IdleSweep EXCEPT !.pc = "scanned",
                                           !.inactive = inactive_connections]
    /\ sent' = <<>>
    /\ last' = NoReturn
    /\ UNCHANGED <<now, is_initialized, init_pc, active_streams, metrics, frame,
                   active_connections, user_sessions, hpc, last_activity>>

\* _cleanup_connection(k), called by the sweep, from the close of k's session:
\* the user mapping and the connection record go; after the last scanned
\* connection the sweep returns the length of its list
sweep_cleanup_finish(k) ==
    /\ sent' = <<>>
    /\ IF Connected(k)
       THEN LET user_id == active_connections[k].user_id IN
            /\ user_sessions' =
                   IF user_id \in DOMAIN user_sessions /\ user_sessions[user_id] = k
                   THEN Remove(user_sessions, user_id)
                   ELSE user_sessions
            /\ active_connections' = Remove(active_connections, k)
       ELSE UNCHANGED <<active_connections, user_sessions>>
    /\ sweep' = LET sessions == sweep.sessions \cup StoredSession(k)
                IN  IF sweep.i = Len(sweep.inactive)
                    THEN [sweep EXCEPT !.pc = "idle", !.sessions = sessions,
                                       !.returned = Len(sweep.inactive)]
                    ELSE [sweep EXCEPT !.pc = "scanned", !.sessions = sessions, !.i = @ + 1]

\* the sweep's _cleanup_connection for the next connection of its list, up to
\* its end or to the close's first suspension.  The coroutine that serves the
\* connection is not told: it keeps waiting on its transport
sweep_cleanup ==
    /\ sweep.pc = "scanned"
    /\ UNCHANGED <<hpc, last_activity>>
    /\ LET k == sweep.inactive[sweep.i] IN
       IF Connected(k) /\ active_connections[k].session_id # NoSession
       THEN /\ close_stream_session(Sweeper, active_connections[k].session_id)
            /\ IF frame'[Sweeper].pc # "idle"
               THEN /\ sweep' = [sweep EXCEPT !.pc = "closing",
                                                !.sessions = @ \cup StoredSession(k)]
                    /\ sent' = <<>>
                    /\ UNCHANGED <<active_connections, user_sessions>>
               ELSE sweep_cleanup_finish(k)
       ELSE /\ sweep_cleanup_finish(k)
            /\ last' = NoReturn
            /\ UNCHANGED <<now, is_initialized, init_pc, active_streams, metrics, frame>>

\* the sweep after a step of the Coordinator pass its close awaits
sweep_resume ==
    /\ sweep.pc = "closing"
    /\ UNCHANGED <<hpc, last_activity>>
    /\ IF frame'[Sweeper].pc # "idle"
       THEN /\ sent' = <<>>
            /\ UNCHANGED <<active_connections, user_sessions, sweep>>
       ELSE sweep_cleanup_finish(sweep.inactive[sweep.i])

(***************************************************************************)
(* Room Broadcaster: VSPresenterWebSocketHandler                           *)
(*                                                                         *)
(* The handler's methods are modelled as a server calls them for the       *)
(* connections it has registered: handle_message for every inbound         *)
(* message, disconnect when the transport closes.  A handler runs to its   *)
(* end in one step; nothing it awaits but its own sends can suspend it     *)
(* before its state changes are made.                                      *)
(***************************************************************************)
Members == {"p1", "p2", "p3"}
MemberOrder == <<"p1", "p2", "p3">>
Rooms == {"r1", "r2"}
Languages == {"en", "es"}
\* connection.get("room_code") of a connection that joined no room
NoRoom == "None"
\* data.get("participant_id") and data.get("language") of a message without it
NoMember == "None"
NoLanguage == "None"

SetItem(f, key, value) ==
    [x \in DOMAIN f \cup {key} |-> IF x = key THEN value ELSE f[x]]
DelItem(f, key) == [x \in DOMAIN f \ {key} |-> f[x]]

\* a message to the client of connection p
RoomMsg(p, type, error, participant_id, language) ==
    [to |-> p, type |-> type, error |-> error,
     participant_id |-> participant_id, language |-> language]

RoomError(p, error_message) ==
    RoomMsg(p, "error", error_message, NoMember, NoLanguage)

Registered(p) == p \in DOMAIN room_connections

\* the inbound messages of p come from a registered, open transport
Receiving(p) == Registered(p) /\ room_connections[p].open

\* _send_message: a send on a closed transport raises ConnectionClosed,
\* which is swallowed
_send_message(conns, m) ==
    IF m.to \in DOMAIN conns /\ conns[m.to].open THEN <<m>> ELSE <<>>

\* _send_message for a participant_id that is in active_connections
SendIfConnected(conns, m) ==
    IF m.to \in DOMAIN conns THEN _send_message(conns, m) ELSE <<>>

\* the registration of a connection, before any message of it
room_connect(p) ==
    /\ ~Registered(p)
    /\ room_connections' =
           SetItem(room_connections, p,
                   [open |-> TRUE, room_code |-> NoRoom, is_presenter |-> FALSE])
    /\ sent' = <<>>
    /\ UNCHANGED <<presentation_rooms, room_participants, participant_languages,
                   muted_participants, raised_hands, presenter_connections>>

\* _broadcast_to_room, with the connections and the participant sets as they
\* are when it is called
_broadcast_to_room(conns, participants, room_code, type, participant_id, language) ==
    IF room_code \in DOMAIN participants
    THEN LET to == SelectSeq(MemberOrder,
                             LAMBDA q : /\ q \in participants[room_code]
                                        /\ q \in DOMAIN conns
                                        /\ conns[q].open)
         IN  [i \in 1..Len(to) |-> RoomMsg(to[i], type, "", participant_id, language)]
    ELSE <<>>

_cleanup_room(f, room_code) == DelItem(f, room_code)

_handle_join_presentation(p, room_code, complete, selected_language, is_presenter) ==
    /\ Receiving(p)
    /\ IF ~complete
       THEN /\ sent' = <<RoomError(p, "Missing room_code or participant_name")>>
            /\ UNCHANGED <<rvars, svars, quality>>
       ELSE LET fresh == room_code \notin DOMAIN presentation_rooms
                participants0 == IF fresh THEN SetItem(room_participants, room_code, {})
                                          ELSE room_participants
                participants1 == SetItem(participants0, room_code,
                                         participants0[room_code] \cup {p})
                conns1 == SetItem(room_connections, p,
                                  [open |-> TRUE, room_code |-> room_code,
                                   is_presenter |-> is_presenter])
            IN  /\ presentation_rooms' =
                       IF fresh
                       THEN SetItem(presentation_rooms, room_code, [is_active |-> TRUE])
                       ELSE presentation_rooms
                /\ room_participants' = participants1
                /\ muted_participants' =
                       IF fresh THEN SetItem(muted_participants, room_code, {})
                                ELSE muted_participants
                /\ raised_hands' =
                       IF fresh THEN SetItem(raised_hands, room_code, {})
                                ELSE raised_hands
                /\ participant_languages' =
                       SetItem(participant_languages, p, selected_language)
                /\ presenter_connections' =
                       IF is_presenter THEN SetItem(presenter_connections, room_code, p)
                                       ELSE presenter_connections
                /\ room_connections' = conns1
                /\ sent' = _broadcast_to_room(conns1, participants1, room_code,
                                              "participant_joined", p, selected_language)
                           \o _send_message(conns1,
                                  RoomMsg(p, "joined_presentation", "", NoMember, NoLanguage))

\* _handle_presenter_audio.  The call of process_stream_chunk passes the
\* keywords source_language and target_languages, which the pipeline's method
\* does not take, for a session id presenter_<room_code> that no
\* create_stream_session has made: the call raises, and the handler reports it
_handle_presenter_audio(p, has_audio) ==
    /\ Receiving(p)
    /\ LET connection == room_connections[p]
       IN  sent' =
               IF connection.room_code = NoRoom \/ ~connection.is_presenter
               THEN <<RoomError(p, "Only presenters can send presenter audio")>>
               ELSE IF connection.room_code \notin DOMAIN presentation_rooms
               THEN _send_message(room_connections, RoomError(p, "Audio processing failed"))
               ELSE IF has_audio
               THEN _send_message(room_connections, RoomError(p, "Audio processing failed"))
               ELSE <<>>
    /\ UNCHANGED <<rvars, svars, quality>>

\* a distribution that does not look at the muted set
_distribute_to_muted_too(room_code, translations, presenter_id) ==
    IF room_code \notin DOMAIN room_participants
    THEN <<>>
    ELSE LET lang(q) == IF q \in DOMAIN participant_languages
                        THEN participant_languages[q] ELSE "en"
             to == SelectSeq(MemberOrder,
                             LAMBDA q : /\ q \in room_participants[room_code]
                                        /\ q # presenter_id
                                        /\ lang(q) \in translations
                                        /\ q \in DOMAIN room_connections
                                        /\ room_connections[q].open)
         IN  [i \in 1..Len(to) |->
                 RoomMsg(to[i], "translated_audio", "", NoMember, lang(to[i]))]

\* the messages of _distribute_translated_audio for a result that holds a
\* translation for each language of `translations`
_distribute_translated_audio(room_code, translations, presenter_id) ==
    IF room_code \notin DOMAIN room_participants
    THEN <<>>
    ELSE LET lang(q) == IF q \in DOMAIN participant_languages
                        THEN participant_languages[q] ELSE "en"
             to == SelectSeq(MemberOrder,
                             LAMBDA q : /\ q \in room_participants[room_code]
                                        /\ q # presenter_id
                                        /\ lang(q) \in translations
                                        /\ q \in DOMAIN room_connections
                                        /\ q \notin muted_participants[room_code]
                                        /\ room_connections[q].open)
         IN  [i \in 1..Len(to) |->
                 RoomMsg(to[i], "translated_audio", "", NoMember, lang(to[i]))]

\* lines 162-164 of _handle_presenter_audio, for a presenter p that passed the
\* check of line 131 and a result that holds `translations`
presenter_audio_distributes(p, translations) ==
    /\ Receiving(p)
    /\ room_connections[p].is_presenter
    /\ room_connections[p].room_code \in DOMAIN presentation_rooms
    /\ UNCHANGED <<rvars, svars, quality>>
    /\ sent' = _distribute_translated_audio(room_connections[p].room_code,
                                            translations, p)

_handle_participant_mute(p, participant_id) ==
    /\ Receiving(p)
    /\ LET connection == room_connections[p]
           room_code == connection.room_code
       IN  IF ~connection.is_presenter
           THEN /\ sent' = <<RoomError(p, "Only presenters can mute participants")>>
                /\ UNCHANGED <<rvars, svars, quality>>
           ELSE IF participant_id # NoMember /\ room_code # NoRoom
                   /\ room_code \in DOMAIN muted_participants
           THEN /\ muted_participants' =
                       SetItem(muted_participants, room_code,
                               muted_participants[room_code] \cup {participant_id})
                /\ sent' = SendIfConnected(room_connections,
                               RoomMsg(participant_id, "muted", "", NoMember, NoLanguage))
                           \o _send_message(room_connections,
                               RoomMsg(p, "participant_muted", "", participant_id, NoLanguage))
                /\ UNCHANGED <<room_connections, presentation_rooms, room_participants,
                               participant_languages, raised_hands, presenter_connections>>
           ELSE /\ sent' = <<>>
                /\ UNCHANGED <<rvars, svars, quality>>

_handle_participant_unmute(p, participant_id) ==
    /\ Receiving(p)
    /\ LET connection == room_connections[p]
           room_code == connection.room_code
       IN  IF ~connection.is_presenter
           THEN /\ sent' = <<RoomError(p, "Only presenters can unmute participants")>>
                /\ UNCHANGED <<rvars, svars, quality>>
           ELSE IF participant_id # NoMember /\ room_code # NoRoom
                   /\ room_code \in DOMAIN muted_participants
           THEN /\ muted_participants' =
                       SetItem(muted_participants, room_code,
                               muted_participants[room_code] \ {participant_id})
                /\ sent' = SendIfConnected(room_connections,
                               RoomMsg(participant_id, "unmuted", "", NoMember, NoLanguage))
                           \o _send_message(room_connections,
                               RoomMsg(p, "participant_unmuted", "", participant_id, NoLanguage))
                /\ UNCHANGED <<room_connections, presentation_rooms, room_participants,
                               participant_languages, raised_hands, presenter_connections>>
           ELSE /\ sent' = <<>>
                /\ UNCHANGED <<rvars, svars, quality>>

_handle_raise_hand(p, raised) ==
    /\ Receiving(p)
    /\ LET connection == room_connections[p]
           room_code == connection.room_code
       IN  IF room_code # NoRoom /\ room_code \in DOMAIN raised_hands
           THEN /\ raised_hands' =
                       SetItem(raised_hands, room_code,
                               IF raised THEN raised_hands[room_code] \cup {p}
                                         ELSE raised_hands[room_code] \ {p})
                /\ sent' =
                       IF room_code \in DOMAIN presenter_connections
                       THEN SendIfConnected(room_connections,
                                RoomMsg(presenter_connections[room_code],
                                        IF raised THEN "hand_raised" ELSE "hand_lowered",
                                        "", p, NoLanguage))
                       ELSE <<>>
                /\ UNCHANGED <<room_connections, presentation_rooms, room_participants,
                               participant_languages, muted_participants,
                               presenter_connections>>
           ELSE /\ sent' = <<>>
                /\ UNCHANGED <<rvars, svars, quality>>

_handle_allow_speak(p, participant_id) ==
    /\ Receiving(p)
    /\ LET connection == room_connections[p]
           room_code == connection.room_code
       IN  IF ~connection.is_presenter
           THEN /\ sent' = <<RoomError(p, "Only presenters can allow participants to speak")>>
                /\ UNCHANGED <<rvars, svars, quality>>
           ELSE IF participant_id # NoMember /\ room_code # NoRoom
                   /\ room_code \in DOMAIN muted_participants
           THEN /\ muted_participants' =
                       SetItem(muted_participants, room_code,
                               muted_participants[room_code] \ {participant_id})
                /\ raised_hands' =
                       SetItem(raised_hands, room_code,
                               raised_hands[room_code] \ {participant_id})
                /\ sent' = SendIfConnected(room_connections,
                               RoomMsg(participant_id, "allowed_to_speak", "",
                                       NoMember, NoLanguage))
                /\ UNCHANGED <<room_connections, presentation_rooms, room_participants,
                               participant_languages, presenter_connections>>
           ELSE /\ sent' = <<>>
                /\ UNCHANGED <<rvars, svars, quality>>

_handle_update_language(p, new_language) ==
    /\ Receiving(p)
    /\ IF new_language # NoLanguage
       THEN /\ participant_languages' = SetItem(participant_languages, p, new_language)
            /\ sent' = IF room_connections[p].room_code # NoRoom
                       THEN _broadcast_to_room(room_connections, room_participants,
                                room_connections[p].room_code,
                                "participant_language_updated", p, new_language)
                       ELSE <<>>
            /\ UNCHANGED <<room_connections, presentation_rooms, room_participants,
                           muted_participants, raised_hands, presenter_connections>>
       ELSE /\ sent' = <<>>
            /\ UNCHANGED <<rvars, svars, quality>>

_handle_end_presentation(p) ==
    /\ Receiving(p)
    /\ LET connection == room_connections[p]
           room_code == connection.room_code
       IN  IF ~connection.is_presenter
           THEN /\ sent' = <<RoomError(p, "Only presenters can end presentations")>>
                /\ UNCHANGED <<rvars, svars, quality>>
           ELSE IF room_code # NoRoom /\ room_code \in DOMAIN presentation_rooms
           THEN /\ sent' = _broadcast_to_room(room_connections, room_participants,
                                room_code, "presentation_ended", NoMember, NoLanguage)
                /\ presentation_rooms' = _cleanup_room(presentation_rooms, room_code)
                /\ room_participants' = _cleanup_room(room_participants, room_code)
                /\ muted_participants' = _cleanup_room(muted_participants, room_code)
                /\ raised_hands' = _cleanup_room(raised_hands, room_code)
                /\ presenter_connections' = _cleanup_room(presenter_connections, room_code)
                /\ UNCHANGED <<room_connections, participant_languages>>
           ELSE /\ sent' = <<>>
                /\ UNCHANGED <<rvars, svars, quality>>

\* the set stored for room_code without p, where there is one
Discard(f, room_code, p) ==
    IF room_code \in DOMAIN f THEN SetItem(f, room_code, f[room_code] \ {p}) ELSE f

\* disconnect.  The call of the base class's disconnect at its end raises
\* AttributeError (the base class has no such method), which is logged: the
\* record of the connection stays in active_connections
disconnect(p) ==
    /\ Receiving(p)
    /\ LET connection == room_connections[p]
           room_code == connection.room_code
           conns1 == SetItem(room_connections, p, [connection EXCEPT !.open = FALSE])
           participants1 == Discard(room_participants, room_code, p)
           muted1 == Discard(muted_participants, room_code, p)
           raised1 == Discard(raised_hands, room_code, p)
       IN  /\ room_connections' = conns1
           /\ IF room_code = NoRoom
              THEN /\ sent' = <<>>
                   /\ UNCHANGED <<presentation_rooms, room_participants,
                                  participant_languages, muted_participants,
                                  raised_hands, presenter_connections>>
              ELSE /\ participant_languages' = DelItem(participant_languages, p)
                   /\ IF connection.is_presenter
                      THEN /\ sent' = _broadcast_to_room(conns1, participants1, room_code,
                                          "presentation_ended", NoMember, NoLanguage)
                           /\ presentation_rooms' = _cleanup_room(presentation_rooms, room_code)
                           /\ room_participants' = _cleanup_room(participants1, room_code)
                           /\ muted_participants' = _cleanup_room(muted1, room_code)
                           /\ raised_hands' = _cleanup_room(raised1, room_code)
                           /\ presenter_connections' =
                                  _cleanup_room(presenter_connections, room_code)
                      ELSE /\ sent' = _broadcast_to_room(conns1, participants1, room_code,
                                          "participant_left", p, NoLanguage)
                           /\ room_participants' = participants1
                           /\ muted_participants' = muted1
                           /\ raised_hands' = raised1
                           /\ UNCHANGED <<presentation_rooms, presenter_connections>>

(***************************************************************************)
(* Callers of the pipeline outside the gateway (the REST routers, the      *)
(* tests): the gateway stands still                                        *)
(***************************************************************************)
\* the step keeps the counters within the bounds of the model
Within(max_chunks, max_requests) ==
    /\ metrics'.total_requests <= max_requests
    /\ \A s \in DOMAIN active_streams' : active_streams'[s].chunk_count <= max_chunks

ClientTick == Tick /\ UNCHANGED <<gvars, rvars, svars, quality>>

ClientInitializeStart == initialize_start /\ UNCHANGED <<gvars, rvars, svars, quality>>

ClientInitializeFinish ==
    \E a, b, c \in InitResults : initialize_finish(a, b, c) /\ UNCHANGED <<gvars, rvars, svars, quality>>

ClientOpen ==
    \E t \in Clients, u \in Users :
        create_stream_session(t, u) /\ UNCHANGED <<gvars, rvars, svars, quality>>

\* the session ids a caller may name: those an open may have returned
Targets == {SessionId(u, now) : u \in Users}

ClientPush ==
    \E t \in Clients, s \in Targets :
        /\ process_stream_chunk(t, s, NextChunk(s))
        /\ Within(MaxChunks, MaxRequests)
        /\ UNCHANGED <<gvars, rvars, svars, quality>>

ClientClose ==
    \E t \in Clients, s \in Targets :
        /\ close_stream_session(t, s)
        /\ Within(MaxChunks, MaxRequests)
        /\ UNCHANGED <<gvars, rvars, svars, quality>>

ClientProcess ==
    \E t \in Clients, a \in Audios, l \in BOOLEAN, fi \in FaceImages :
        /\ process_speech_to_speech(t, a, l, fi)
        /\ Within(MaxChunks, MaxRequests)
        /\ UNCHANGED <<gvars, rvars, svars, quality>>

ClientTranscribeReturns(lat) ==
    \E t \in Clients, o \in {"text", "blank", "raise"}, L \in lat :
        transcribe_returns(t, o, L) /\ UNCHANGED <<gvars, rvars, svars, quality>>

ClientTranslateReturns(lat) ==
    \E t \in Clients, o \in {"ok", "raise"}, L \in lat :
        translate_returns(t, o, L) /\ UNCHANGED <<gvars, rvars, svars, quality>>

ClientCloneVoiceReturns(lat) ==
    \E t \in Clients, o \in {"ok", "raise"}, L \in lat :
        clone_voice_returns(t, o, L) /\ UNCHANGED <<gvars, rvars, svars, quality>>

ClientLipSyncReturns(lat) ==
    \E t \in Clients, o \in {"ok", "raise"}, L \in lat :
        generate_lip_sync_returns(t, o, L) /\ UNCHANGED <<gvars, rvars, svars, quality>>

\* The Stream Session Manager under concurrent callers.  The clock stands
\* still: two opens get one session id exactly when they are for one user,
\* as they do within one second
Next ==
    \/ ClientInitializeStart
    \/ ClientInitializeFinish
    \/ ClientOpen
    \/ ClientPush
    \/ ClientClose
    \/ ClientTranscribeReturns({100})
    \/ ClientTranslateReturns({100})
    \/ ClientCloneVoiceReturns({100})

Spec == Init /\ [][Next]_vars

\* The Pipeline Coordinator under concurrent direct calls
CoordNext ==
    \/ ClientTick
    \/ ClientInitializeStart
    \/ ClientInitializeFinish
    \/ ClientOpen
    \/ ClientProcess
    \/ ClientTranscribeReturns(Latencies)
    \/ ClientTranslateReturns(Latencies)
    \/ ClientCloneVoiceReturns(Latencies)
    \/ ClientLipSyncReturns(Latencies)

CoordSpec == Init /\ [][CoordNext]_vars

\* The Stream Session Manager with the clock running: more session ids than
\* the ceiling allows sessions
\* cap on a session's chunk_count where the clock runs
CeilingMaxChunks == 1

CeilingPush ==
    \E t \in Clients, s \in DOMAIN active_streams :
        /\ process_stream_chunk(t, s, NextChunk(s))
        /\ Within(CeilingMaxChunks, MaxRequests)
        /\ UNCHANGED <<gvars, rvars, svars, quality>>

CeilingClose ==
    \E t \in Clients, s \in DOMAIN active_streams :
        /\ close_stream_session(t, s)
        /\ Within(CeilingMaxChunks, MaxRequests)
        /\ UNCHANGED <<gvars, rvars, svars, quality>>

\* a flush ends in its first stage: no speech, or the adapter raises
CeilingTranscribeReturns ==
    \E t \in Clients, o \in {"blank", "raise"} :
        transcribe_returns(t, o, 100) /\ UNCHANGED <<gvars, rvars, svars, quality>>

CeilingNext ==
    \/ ClientTick
    \/ ClientInitializeStart
    \/ ClientInitializeFinish
    \/ ClientOpen
    \/ CeilingPush
    \/ CeilingClose
    \/ CeilingTranscribeReturns

CeilingSpec == Init /\ [][CeilingNext]_vars

(***************************************************************************)
(* The gateway: every call into the pipeline comes from a connection       *)
(***************************************************************************)
\* _handle_message and handle_connection note the time of the connection's
\* latest activity
Touch(k) == last_activity' = [last_activity EXCEPT ![k] = now]

GwInitializeStart ==
    initialize_start /\ sent' = <<>>
        /\ UNCHANGED <<active_connections, user_sessions, hpc, rvars, svars, quality>>

GwInitializeFinish ==
    \E a, b, c \in InitResults :
        initialize_finish(a, b, c) /\ sent' = <<>>
            /\ UNCHANGED <<active_connections, user_sessions, hpc, rvars, svars, quality>>

GwConnect == \E k \in Conns : handle_connection(k) /\ Touch(k) /\ UNCHANGED <<rvars, sweep, quality>>

GwPlainMessage ==
    \E k \in Conns, what \in {"ping", "bad json", "unknown type"} :
        handle_plain_message(k, what) /\ Touch(k) /\ UNCHANGED <<rvars, sweep, quality>>

GwAuthenticate ==
    \E k \in Conns, u \in {"u1", NoUser} :
        _handle_authenticate(k, u) /\ Touch(k) /\ UNCHANGED <<rvars, sweep, quality>>

GwStartStream ==
    \E k \in Conns, complete \in BOOLEAN :
        _handle_start_stream(k, complete) /\ Touch(k) /\ UNCHANGED <<rvars, sweep, quality>>

GwAudioChunk ==
    \E k \in Conns, audio_data \in AudioFields :
        /\ _handle_audio_chunk(k, audio_data)
        /\ Within(GwMaxChunks, MaxRequests)
        /\ Touch(k) /\ UNCHANGED <<rvars, sweep, quality>>

GwEndStream ==
    \E k \in Conns :
        _handle_end_stream(k) /\ Within(GwMaxChunks, MaxRequests) /\ Touch(k) /\ UNCHANGED <<rvars, sweep, quality>>

GwDisconnect ==
    \E k \in Conns :
        _cleanup_connection(k) /\ Within(GwMaxChunks, MaxRequests) /\ UNCHANGED <<rvars, svars, quality>>

GwTranscribeReturns ==
    \E k \in Conns, o \in {"text", "blank", "raise"} :
        transcribe_returns(k, o, 100) /\ Resume(k) /\ UNCHANGED <<rvars, svars, quality>>

GwTranslateReturns ==
    \E k \in Conns, o \in {"ok", "raise"} :
        translate_returns(k, o, 100) /\ Resume(k) /\ UNCHANGED <<rvars, svars, quality>>

GwCloneVoiceReturns ==
    \E k \in Conns, o \in {"ok", "raise"} :
        clone_voice_returns(k, o, 100) /\ Resume(k) /\ UNCHANGED <<rvars, svars, quality>>

\* The clock stands still here: the sessions of one user then share one id,
\* as they do when opened within one second
GatewayNext ==
    \/ GwInitializeStart
    \/ GwInitializeFinish
    \/ GwConnect
    \/ GwPlainMessage
    \/ GwAuthenticate
    \/ GwStartStream
    \/ GwAudioChunk
    \/ GwEndStream
    \/ GwDisconnect
    \/ GwTranscribeReturns
    \/ GwTranslateReturns
    \/ GwCloneVoiceReturns

GatewaySpec == Init /\ [][GatewayNext]_vars

\* the adapter call that connection k's pipeline pass is suspended in returns
\* or raises
AdapterReturns(k) ==
    /\ \/ \E o \in {"text", "blank", "raise"} : transcribe_returns(k, o, 100)
       \/ \E o \in {"ok", "raise"} : translate_returns(k, o, 100)
       \/ \E o \in {"ok", "raise"} : clone_voice_returns(k, o, 100)
    /\ Resume(k)
    /\ UNCHANGED <<rvars, svars, quality>>

\* the gateway without the messages that are answered on the spot and change
\* nothing (ping, unparsable text, unknown types)
GatewayStreamNext ==
    \/ GwInitializeStart
    \/ GwInitializeFinish
    \/ GwConnect
    \/ GwAuthenticate
    \/ GwStartStream
    \/ GwAudioChunk
    \/ GwEndStream
    \/ GwDisconnect
    \/ GwTranscribeReturns
    \/ GwTranslateReturns
    \/ GwCloneVoiceReturns

\* The gateway when every awaited adapter call comes back: the event loop
\* resumes a coroutine whose awaited call has completed
GatewayFairSpec ==
    Init /\ [][GatewayStreamNext]_vars /\ \A k \in Conns : WF_vars(AdapterReturns(k))

\* time.time() advances between two messages
GwTick ==
    Tick /\ sent' = <<>>
        /\ UNCHANGED <<active_connections, user_sessions, hpc, rvars, svars, quality>>

\* The gateway's stream control with a running clock: the sessions a user
\* opens in different seconds have different ids
GatewayClockNext ==
    \/ GwInitializeStart
    \/ GwInitializeFinish
    \/ GwConnect
    \/ GwAuthenticate
    \/ GwStartStream
    \/ GwEndStream
    \/ GwDisconnect
    \/ GwTick

GatewayClockSpec == Init /\ [][GatewayClockNext]_vars

(***************************************************************************)
(* The gateway's user-to-connection map: connections authenticate, under   *)
(* either user id and more than once, and their transports close           *)
(***************************************************************************)
MapAuthenticate ==
    \E k \in Conns, u \in Users \cup {NoUser} :
        _handle_authenticate(k, u) /\ Touch(k) /\ UNCHANGED <<rvars, sweep, quality>>

UserMapNext ==
    \/ GwConnect
    \/ MapAuthenticate
    \/ GwPlainMessage
    \/ GwDisconnect
    \/ GwTick

UserMapSpec == Init /\ [][UserMapNext]_vars

(***************************************************************************)
(* The gateway with a running clock and the idle sweep; the transports     *)
(* stay open                                                               *)
(***************************************************************************)
\* the sessions of this specification hold at most this many chunks
SweepMaxChunks == 1
\* the inactivity windows of the sweeps, in clock seconds
Windows == {0, 1}

\* a connection id names one transport and is not used again: a connection
\* that arrives during a sweep is none of those the sweep has scanned
\* the sweep's coroutine is not between its scan and a cleanup, nor between
\* two cleanups: it has not started, has returned, or is suspended in the
\* close of a session
SweepYields == sweep.pc # "scanned"

SweepConnect ==
    \E k \in Conns :
        /\ SweepYields
        /\ sweep.pc = "idle" \/ \A j \in 1..Len(sweep.inactive) : sweep.inactive[j] # k
        /\ handle_connection(k) /\ Touch(k) /\ UNCHANGED <<rvars, sweep, quality>>

SweepAuthenticate ==
    \E k \in Conns :
        /\ SweepYields
        /\ _handle_authenticate(k, "u1") /\ Touch(k) /\ UNCHANGED <<rvars, sweep, quality>>

SweepStartStream ==
    \E k \in Conns :
        /\ SweepYields
        /\ _handle_start_stream(k, TRUE) /\ Touch(k) /\ UNCHANGED <<rvars, sweep, quality>>

SweepValidChunk ==
    \E k \in Conns :
        /\ SweepYields
        /\ _handle_audio_chunk(k, "valid")
        /\ Within(SweepMaxChunks, MaxRequests)
        /\ Touch(k) /\ UNCHANGED <<rvars, sweep, quality>>

SweepScan ==
    \E order \in ScanOrders, timeout_seconds \in Windows :
        cleanup_inactive_connections(order, timeout_seconds) /\ UNCHANGED <<rvars, quality>>

SweepCleanup ==
    sweep_cleanup /\ Within(SweepMaxChunks, MaxRequests) /\ UNCHANGED <<rvars, quality>>

SweeperTranscribeReturns ==
    \E o \in {"text", "blank", "raise"} :
        transcribe_returns(Sweeper, o, 100) /\ sweep_resume /\ UNCHANGED <<rvars, quality>>

SweeperTranslateReturns ==
    \E o \in {"ok", "raise"} :
        translate_returns(Sweeper, o, 100) /\ sweep_resume /\ UNCHANGED <<rvars, quality>>

SweeperCloneVoiceReturns ==
    \E o \in {"ok", "raise"} :
        clone_voice_returns(Sweeper, o, 100) /\ sweep_resume /\ UNCHANGED <<rvars, quality>>

SweepNext ==
    \/ GwInitializeStart
    \/ GwInitializeFinish
    \/ SweepConnect
    \/ SweepAuthenticate
    \/ SweepStartStream
    \/ SweepValidChunk
    \/ GwTick
    \/ SweepScan
    \/ SweepCleanup
    \/ SweeperTranscribeReturns
    \/ SweeperTranslateReturns
    \/ SweeperCloneVoiceReturns

SweepSpec == Init /\ [][SweepNext]_vars

\* The idle sweep against one connection that streams up to a threshold
\* flush: the sweep may find the connection idle while its flush is in flight
FlushConnect ==
    /\ SweepYields
    /\ sweep.pc = "idle" \/ \A j \in 1..Len(sweep.inactive) : sweep.inactive[j] # "k1"
    /\ handle_connection("k1") /\ Touch("k1") /\ UNCHANGED <<rvars, sweep, quality>>

FlushValidChunk ==
    /\ SweepYields
    /\ _handle_audio_chunk("k1", "valid")
    /\ Within(MaxChunks, MaxRequests)
    /\ Touch("k1") /\ UNCHANGED <<rvars, sweep, quality>>

FlushSweepCleanup ==
    sweep_cleanup /\ Within(MaxChunks, MaxRequests) /\ UNCHANGED <<rvars, quality>>

FlushAdapterReturns == SweepYields /\ AdapterReturns("k1")

SweepFlushNext ==
    \/ GwInitializeStart
    \/ GwInitializeFinish
    \/ FlushConnect
    \/ SweepAuthenticate
    \/ SweepStartStream
    \/ FlushValidChunk
    \/ FlushAdapterReturns
    \/ GwTick
    \/ SweepScan
    \/ FlushSweepCleanup
    \/ SweeperTranscribeReturns
    \/ SweeperTranslateReturns
    \/ SweeperCloneVoiceReturns

SweepFlushSpec == Init /\ [][SweepFlushNext]_vars

(***************************************************************************)
(* The quality score over every combination of component values            *)
(***************************************************************************)
QualityCall ==
    \E s, t, v \in Components :
        calculate_quality(s, t, v)
        /\ UNCHANGED <<pvars, gvars, rvars, svars>>

QualityNext == QualityCall

QualitySpec == Init /\ [][QualityNext]_vars

(***************************************************************************)
(* The Room Broadcaster under the messages of its members: the pipeline    *)
(* and the gateway stand still                                             *)
(***************************************************************************)
RoomFrame == UNCHANGED <<pvars, active_connections, user_sessions, hpc, svars, quality>>

\* two connections and one room code, every message type
Pair == {"p1", "p2"}
OneRoom == {"r1"}

RoomConnect == \E p \in Pair : room_connect(p) /\ RoomFrame

RoomJoin ==
    \E p \in Pair, room_code \in OneRoom, complete \in BOOLEAN,
       selected_language \in Languages, is_presenter \in BOOLEAN :
        /\ _handle_join_presentation(p, room_code, complete, selected_language,
                                     is_presenter)
        /\ RoomFrame

RoomPresenterAudio ==
    \E p \in Pair, has_audio \in BOOLEAN :
        _handle_presenter_audio(p, has_audio) /\ RoomFrame

RoomMute ==
    \E p \in Pair, participant_id \in Pair \cup {NoMember} :
        _handle_participant_mute(p, participant_id) /\ RoomFrame

RoomUnmute ==
    \E p \in Pair, participant_id \in Pair \cup {NoMember} :
        _handle_participant_unmute(p, participant_id) /\ RoomFrame

RoomRaiseHand ==
    \E p \in Pair, raised \in BOOLEAN : _handle_raise_hand(p, raised) /\ RoomFrame

RoomAllowSpeak ==
    \E p \in Pair, participant_id \in Pair \cup {NoMember} :
        _handle_allow_speak(p, participant_id) /\ RoomFrame

RoomUpdateLanguage ==
    \E p \in Pair, new_language \in Languages \cup {NoLanguage} :
        _handle_update_language(p, new_language) /\ RoomFrame

RoomEndPresentation == \E p \in Pair : _handle_end_presentation(p) /\ RoomFrame

RoomDisconnect == \E p \in Pair : disconnect(p) /\ RoomFrame

RoomNext == RoomConnect \/ RoomJoin \/ RoomPresenterAudio \/ RoomMute \/ RoomUnmute
            \/ RoomRaiseHand \/ RoomAllowSpeak \/ RoomUpdateLanguage
            \/ RoomEndPresentation \/ RoomDisconnect

RoomSpec == Init /\ [][RoomNext]_vars

\* two connections that move between two rooms
MoveConnect == \E p \in Pair : room_connect(p) /\ RoomFrame

MoveJoin ==
    \E p \in Pair, room_code \in Rooms, is_presenter \in BOOLEAN :
        _handle_join_presentation(p, room_code, TRUE, "en", is_presenter) /\ RoomFrame

MoveRaiseHand ==
    \E p \in Pair, raised \in BOOLEAN : _handle_raise_hand(p, raised) /\ RoomFrame

MoveDisconnect == \E p \in Pair : disconnect(p) /\ RoomFrame

RoomMoveNext == MoveConnect \/ MoveJoin \/ MoveRaiseHand \/ MoveDisconnect

RoomMoveSpec == Init /\ [][RoomMoveNext]_vars

\* a presenter and its listeners in one room, with the distribution of a result
\* that _handle_presenter_audio makes at lines 162-164
FanConnect == \E p \in Members : room_connect(p) /\ RoomFrame

FanJoin ==
    \E p \in Members, room_code \in OneRoom, selected_language \in Languages,
       is_presenter \in BOOLEAN :
        /\ _handle_join_presentation(p, room_code, TRUE, selected_language,
                                     is_presenter)
        /\ RoomFrame

FanMute ==
    \E p \in Members, participant_id \in Members :
        _handle_participant_mute(p, participant_id) /\ RoomFrame

FanDisconnect == \E p \in Members : disconnect(p) /\ RoomFrame

FanOut ==
    \E p \in Members, translations \in SUBSET Languages :
        presenter_audio_distributes(p, translations) /\ RoomFrame

FanOutNext == FanConnect \/ FanJoin \/ FanMute \/ FanDisconnect \/ FanOut

FanOutSpec == Init /\ [][FanOutNext]_vars

(***************************************************************************)
(* Properties                                                              *)
(***************************************************************************)
InFlight(t) == frame[t].pc # "idle"

\* C1: a pushChunk returns a PipelineResult exactly when it brings the number
\* of buffered chunks to the threshold 5: below it the call returns a buffering
\* acknowledgement at once and the Coordinator is not invoked; at it the
\* buffered audio goes to the Coordinator once, and what the suspended push
\* returns is that pass's PipelineResult.  A session's buffer holds its chunk
\* count modulo 5, so from an empty buffer it is every fifth push that flushes.
C1_PushFlushesAtThreshold ==
    /\ [](\A s \in DOMAIN active_streams :
            Len(active_streams[s].buffer) = active_streams[s].chunk_count % FLUSH_THRESHOLD)
    /\ [][\A t \in Clients, s \in Targets :
            (s \in DOMAIN active_streams /\ process_stream_chunk(t, s, NextChunk(s)))
            => IF Len(active_streams[s].buffer) + 1 = FLUSH_THRESHOLD
               THEN /\ frame'[t].op = "push" /\ frame'[t].pc = "stt"
                    /\ frame'[t].audio =
                           Join(Append(active_streams[s].buffer, NextChunk(s)))
                    /\ metrics'.total_requests = metrics.total_requests + 1
                    /\ last' = NoReturn
               ELSE /\ last'.op = "push" /\ last'.ret = Buffering
                    /\ ~InFlight(t)'
                    /\ metrics' = metrics]_vars
    /\ [][\A t \in Clients :
            (frame[t].op = "push" /\ frame'[t] # frame[t])
            => /\ metrics'.total_requests = metrics.total_requests
               /\ \/ frame'[t].op = "push" /\ InFlight(t)'
                  \/ /\ last'.op = "push" /\ last'.ret.kind = "result"
                     /\ last'.ret.result # None]_vars

\* C1 witness: the fifth push of a session has returned its PipelineResult
C1_Witness ==
    /\ last.op = "push" /\ last.ret.kind = "result"
    /\ last.sid \in DOMAIN active_streams
    /\ active_streams[last.sid].chunk_count = FLUSH_THRESHOLD
    /\ active_streams[last.sid].buffer = <<>>

\* C2: close on a session with buffered chunks invokes the Coordinator once,
\* on the concatenation of those chunks in order, and what the suspended close
\* returns carries that pass's PipelineResult as final_result; close on a
\* session with an empty buffer returns at once with no final_result and no
\* Coordinator invocation.
C2_CloseFlushesRemainder ==
    /\ [][\A t \in Clients, s \in Targets :
            (s \in DOMAIN active_streams /\ close_stream_session(t, s))
            => IF active_streams[s].buffer # <<>>
               THEN /\ frame'[t].op = "close" /\ frame'[t].pc = "stt"
                    /\ frame'[t].sid = s
                    /\ frame'[t].audio = Join(active_streams[s].buffer)
                    /\ metrics'.total_requests = metrics.total_requests + 1
                    /\ last' = NoReturn
               ELSE /\ last'.op = "close" /\ last'.ret.kind = "closed"
                    /\ last'.ret.result = None
                    /\ ~InFlight(t)'
                    /\ metrics'.total_requests = metrics.total_requests]_vars
    /\ [][\A t \in Clients :
            (frame[t].op = "close" /\ frame'[t] # frame[t])
            => /\ metrics'.total_requests = metrics.total_requests
               /\ active_streams' = active_streams
               /\ \/ frame'[t].op = "close" /\ InFlight(t)'
                  \/ /\ last'.op = "close" /\ last'.ret.kind = "closed"
                     /\ last'.sid = frame[t].sid
                     /\ last'.ret.result # None]_vars

\* C2 witness: a close has returned the result of its final flush, which was
\* given the two chunks left in the buffer
C2_Witness ==
    /\ last.op = "close" /\ last.ret.kind = "closed"
    /\ last.ret.result # None
    /\ last.ret.chunks_processed = 2

\* C3: an open while the table holds as many sessions as the ceiling allows
\* fails with the capacity error and leaves the session table (its size, every
\* session's buffer and chunk counter) and the counters as they were.
C3_OpenAtCeilingFails ==
    [][\A t \in Clients, u \in Users :
          (~NotReady /\ Cardinality(DOMAIN active_streams) = MAX_CONCURRENT_STREAMS
              /\ create_stream_session(t, u))
          => /\ last'.op = "open" /\ last'.ret = Raised("capacity")
             /\ active_streams' = active_streams
             /\ metrics' = metrics]_vars

\* C3 witness: an open has failed for capacity while a session holds chunks
C3_Witness ==
    /\ last.op = "open" /\ last.ret = Raised("capacity")
    /\ Cardinality(DOMAIN active_streams) = MAX_CONCURRENT_STREAMS
    /\ \E s \in DOMAIN active_streams : active_streams[s].buffer # <<>>

\* C4: every successful open returns an id that no session in the table has,
\* adds exactly that one session and leaves every existing session as it was.
C4_OpenReturnsFreshId ==
    [][\A t \in Clients, u \in Users :
          (create_stream_session(t, u) /\ last'.ret.kind = "session")
          => /\ last'.ret.session_id \notin DOMAIN active_streams
             /\ DOMAIN active_streams' = DOMAIN active_streams \cup {last'.ret.session_id}
             /\ \A s \in DOMAIN active_streams : active_streams'[s] = active_streams[s]]_vars

\* C5: pushChunk and close on an id that is not in the table fail with the
\* not-found error and change no session; once a close of s has returned, s is
\* not in the table.
C5_ClosedSessionIsGone ==
    /\ [][\A t \in Clients, s \in Targets :
            (s \notin DOMAIN active_streams
                /\ (process_stream_chunk(t, s, NextChunk(s)) \/ close_stream_session(t, s)))
            => /\ last'.ret = Raised("invalid session")
               /\ active_streams' = active_streams]_vars
    /\ [](last.op = "close" /\ last.ret.kind = "closed"
            => last.sid \notin DOMAIN active_streams)

\* C6: when the speech, translation or voice adapter raises during process,
\* the call returns a failure PipelineResult (success false, an error
\* description, the elapsed time) and raises nothing; the request was counted
\* once, at its entry, and neither the success counter nor the rolling average
\* moves at any step of it.
C6_AdapterFailureIsAResult ==
    /\ [][\A t \in Clients, L \in Latencies :
            (frame[t].op = "process"
                /\ \/ transcribe_returns(t, "raise", L)
                   \/ translate_returns(t, "raise", L)
                   \/ clone_voice_returns(t, "raise", L))
            => /\ last'.op = "process" /\ last'.ret.kind = "result"
               /\ ~last'.ret.result.success
               /\ last'.ret.result.error \notin {"", None.error}
               /\ last'.ret.result.total_time_ms = L
               /\ ~InFlight(t)'
               /\ metrics' = metrics]_vars
    /\ [][\A t \in Clients, a \in Audios, l \in BOOLEAN, fi \in FaceImages :
            (is_initialized /\ process_speech_to_speech(t, a, l, fi))
            => /\ InFlight(t)'
               /\ metrics' = [metrics EXCEPT !.total_requests = @ + 1]]_vars
    /\ [][\A t \in Clients :
            (frame[t].op = "process" /\ frame'[t] # frame[t]
                /\ ~(last'.ret.kind = "result" /\ last'.ret.result.success))
            => metrics' = metrics]_vars

\* C6 witness: after one successful request, a second one has returned the
\* failure result of a raising voice adapter
C6_Witness ==
    /\ last.op = "process" /\ last.ret.kind = "result"
    /\ last.ret.result = _create_error_result("voice adapter", 500)
    /\ metrics.total_requests = 2
    /\ metrics.successful_requests = 1
    /\ metrics.average_latency_ms = 100 * Scale

\* C7: a flush started by an audio_chunk that ends in a failure result ends
\* neither the connection nor the session: the step that delivers the failure
\* leaves the connection table and the session table as they were, the
\* connection is still streaming on the session the flush was for, and its
\* handler waits for the next message; a valid audio_chunk on a streaming
\* connection whose session is in the table is taken into the session and
\* answered with no error.
C7_FailedFlushKeepsStream ==
    /\ [](\A k \in Conns :
            hpc[k] = "push"
            => /\ Connected(k)
               /\ active_connections[k].session_id = frame[k].sid
               /\ frame[k].sid # NoSession)
    /\ [][\A k \in Conns :
            (hpc[k] = "push" /\ ~InFlight(k)'
                /\ last'.ret.kind = "result" /\ ~last'.ret.result.success)
            => /\ active_connections' = active_connections
               /\ active_streams' = active_streams
               /\ user_sessions' = user_sessions
               /\ hpc'[k] = "recv"
               /\ \A i \in 1..Len(sent') : sent'[i].type # "error"]_vars
    /\ [][\A k \in Conns :
            (/\ Connected(k)
             /\ active_connections[k].session_id \in DOMAIN active_streams
             /\ _handle_audio_chunk(k, "valid"))
            => LET s == active_connections[k].session_id IN
               /\ active_streams'[s].chunk_count = active_streams[s].chunk_count + 1
               /\ active_connections' = active_connections
               /\ \A i \in 1..Len(sent') : sent'[i].type # "error"]_vars

\* C7 witness: the only flush there was has failed, and the sixth chunk of
\* the session has since been buffered on a connection that is still streaming
C7_Witness ==
    /\ metrics.total_requests = 1 /\ metrics.successful_requests = 0
    /\ \A k \in Conns : ~InFlight(k)
    /\ \E k \in DOMAIN active_connections :
          LET s == active_connections[k].session_id IN
          /\ hpc[k] = "recv"
          /\ s \in DOMAIN active_streams
          /\ active_streams[s].chunk_count = FLUSH_THRESHOLD + 1
          /\ active_streams[s].buffer = <<<<FLUSH_THRESHOLD + 1>>>>

\* C8: every audio_chunk whose flush completes is answered with one
\* translation_result message carrying the PipelineResult, successful or not;
\* an audio_chunk that only buffers is answered with nothing.
C8_FlushResultIsEmitted ==
    /\ [][\A k \in Conns :
            (hpc[k] = "push" /\ ~InFlight(k)' /\ last'.ret.kind = "result")
            => sent' = <<Msg(k, "translation_result", "", last'.sid,
                             last'.ret.result, 0)>>]_vars
    /\ [][\A k \in Conns :
            (_handle_audio_chunk(k, "valid") /\ last'.ret = Buffering)
            => sent' = <<>>]_vars

\* C9: when speech-to-text returns text that is blank after strip(), process
\* returns a failure result having called the speech adapter only (no
\* translation, no normalizer, no voice synthesis, no lip sync); the request
\* was counted at its entry and the success counter does not move.
C9_BlankTextStopsThePipeline ==
    /\ [][\A t \in Clients, L \in Latencies :
            transcribe_returns(t, "blank", L)
            => /\ last'.ret.kind = "result"
               /\ ~last'.ret.result.success
               /\ last'.ret.result.total_time_ms = L
               /\ last'.invoked = {"stt"}
               /\ ~InFlight(t)'
               /\ metrics' = metrics]_vars
    /\ [][\A t \in Clients :
            (~InFlight(t) /\ InFlight(t)')
            => /\ frame'[t].pc = "stt" /\ frame'[t].invoked = {"stt"}
               /\ metrics'.total_requests = metrics.total_requests + 1
               /\ metrics'.successful_requests = metrics.successful_requests]_vars

\* C9 witness: a request asking for lip sync has returned the no-speech
\* failure, and it is the only request counted
C9_Witness ==
    /\ last.op = "process"
    /\ last.ret.result = _create_error_result("No speech detected in audio", 100)
    /\ last.invoked = {"stt"}
    /\ metrics.total_requests = 1 /\ metrics.successful_requests = 0

\* C10: while initialize has not completed successfully the pipeline is not
\* initialized, and a process or an open called then fails with the not-ready
\* error at once: no adapter is invoked, the counters and the session table
\* stay as they were.
C10_NotReadyBeforeInitialize ==
    /\ [](is_initialized => init_pc = "done")
    /\ [][\A a, b, c \in InitResults :
            (initialize_finish(a, b, c) /\ {a, b, c} # {"true"})
            => ~is_initialized']_vars
    /\ [][\A t \in Clients, u \in Users, a \in Audios, l \in BOOLEAN,
             fi \in FaceImages :
            (/\ ~is_initialized
             /\ \/ process_speech_to_speech(t, a, l, fi)
                \/ create_stream_session(t, u))
            => /\ last'.ret = Raised("not initialized")
               /\ last'.invoked = {}
               /\ ~InFlight(t)'
               /\ metrics' = metrics
               /\ active_streams' = active_streams]_vars

\* C10 witness: a process called while initialize is still gathering its
\* adapters has failed with the not-ready error
C10_Witness ==
    /\ init_pc = "gather"
    /\ last.op = "process" /\ last.ret = Raised("not initialized")
    /\ metrics.total_requests = 0

\* C11: a connection never has two open sessions that were created through
\* it: when a start_stream succeeds on a connection that holds a session of
\* the table, that earlier session is not left in the table beside the new one.
C11_OneSessionPerConnection ==
    [][\A k \in Conns :
          (/\ Connected(k)
           /\ active_connections[k].session_id \in DOMAIN active_streams
           /\ _handle_start_stream(k, TRUE)
           /\ last'.ret.kind = "session")
          => ~(/\ last'.sid # active_connections[k].session_id
               /\ active_connections[k].session_id \in DOMAIN active_streams')]_vars

\* C12: when the transport of a connection closes, whatever the connection
\* holds (nothing, a user, a session), the teardown takes the session whose id
\* the connection stores out of the session table at once, completes as soon
\* as the final flush of that session is through (every flush being answered,
\* it does complete), and at its completion the connection record is gone.
C12_TeardownCompletes ==
    /\ [][\A k \in Conns :
            (Connected(k) /\ _cleanup_connection(k))
            => /\ active_connections[k].session_id \notin DOMAIN active_streams'
               /\ \/ hpc'[k] = "closed" /\ ~Connected(k)'
                  \/ /\ hpc'[k] = "cleanup" /\ frame'[k].op = "close"
                     /\ frame'[k].sid = active_connections[k].session_id
                     /\ active_connections[k].session_id \in DOMAIN active_streams]_vars
    /\ [](\A k \in Conns : hpc[k] = "closed" => ~Connected(k) /\ ~InFlight(k))
    /\ \A k \in Conns : (hpc[k] = "cleanup") ~> (hpc[k] = "closed")

\* C12 witness: the teardown of a streaming connection has completed with the
\* return of its session's final flush
C12_Witness ==
    /\ last.op = "close" /\ last.ret.kind = "closed" /\ last.ret.result # None
    /\ \E k \in Conns :
          /\ hpc[k] = "closed" /\ ~Connected(k)
          /\ last.sid \notin DOMAIN active_streams

\* C13: a message that cannot be parsed, has an unknown type or lacks a
\* required field (credentials for authenticate, voice profile or target
\* language for start_stream, audio data in a valid encoding for audio_chunk,
\* an active session for audio_chunk and end_stream) is answered with one
\* error on its connection and changes nothing: the connection keeps its user
\* id and session id, the session table and every session's buffer and chunk
\* counter stay as they were.
C13_MalformedMessageIsRejected ==
    [][\A k \in Conns :
          (/\ Connected(k)
           /\ \/ handle_plain_message(k, "bad json")
              \/ handle_plain_message(k, "unknown type")
              \/ _handle_authenticate(k, NoUser)
              \/ _handle_start_stream(k, FALSE)
              \/ \E audio_data \in AudioFields \ {"valid"} :
                    _handle_audio_chunk(k, audio_data)
              \/ /\ active_connections[k].session_id = NoSession
                 /\ _handle_audio_chunk(k, "valid") \/ _handle_end_stream(k))
          => /\ Len(sent') = 1 /\ sent'[1].to = k /\ sent'[1].type = "error"
             /\ active_connections' = active_connections
             /\ user_sessions' = user_sessions
             /\ active_streams' = active_streams
             /\ hpc'[k] = "recv"]_vars

\* C14: an end_stream on a connection that stores a session id closes that
\* session, so that it is not in the session table afterwards; when the close
\* has returned, one stream_ended message carries the number of chunks
\* processed and the final result if there is one, and the stored session id
\* is cleared; an audio_chunk on a connection with no stored session id is
\* answered with an error.
C14_EndStreamClosesSession ==
    /\ [][\A k \in Conns :
            (/\ Connected(k)
             /\ active_connections[k].session_id # NoSession
             /\ _handle_end_stream(k))
            => LET s == active_connections[k].session_id IN
               /\ s \notin DOMAIN active_streams'
               /\ \/ /\ hpc'[k] = "end" /\ frame'[k].op = "close"
                     /\ frame'[k].sid = s /\ sent' = <<>>
                  \/ /\ hpc'[k] = "recv"
                     /\ sent' = <<Msg(k, "stream_ended", "", s, None,
                                      last'.ret.chunks_processed)>>
                     /\ active_connections'[k].session_id = NoSession]_vars
    /\ [][\A k \in Conns :
            (hpc[k] = "end" /\ ~InFlight(k)')
            => /\ hpc'[k] = "recv"
               /\ last'.ret.result # None
               /\ sent' = <<Msg(k, "stream_ended", "", frame[k].sid,
                                last'.ret.result, frame[k].chunks)>>
               /\ active_connections'[k].session_id = NoSession
               /\ frame[k].sid \notin DOMAIN active_streams']_vars
    /\ [][\A k \in Conns :
            (/\ Connected(k)
             /\ active_connections[k].session_id = NoSession
             /\ _handle_audio_chunk(k, "valid"))
            => /\ sent' = <<ErrorMsg(k, "No active stream session")>>
               /\ active_streams' = active_streams]_vars


\* C15: in every state the messages of the members can reach, every
\* connection id that has a language entry is a participant of a room, and
\* every member of a room's muted set or raised-hand set is in that room's
\* participant set
C15_RoomSetsConsistent ==
    /\ \A r \in DOMAIN room_participants :
           /\ muted_participants[r] \subseteq room_participants[r]
           /\ raised_hands[r] \subseteq room_participants[r]
    /\ \A p \in DOMAIN participant_languages :
           \E r \in DOMAIN room_participants : p \in room_participants[r]

\* the connection the room of p has recorded as its presenter is p
Designated(p) ==
    /\ Registered(p)
    /\ room_connections[p].room_code \in DOMAIN presenter_connections
    /\ presenter_connections[room_connections[p].room_code] = p

\* C16: a presenter_audio message from a connection that is not the designated
\* presenter of its room (a connection whose designation a later presenter
\* join overwrote included) is answered with the authorization error alone:
\* nothing goes to the pipeline and no participant is sent anything
C16_PresenterAudioOnlyFromPresenter ==
    [][\A p \in Pair, has_audio \in BOOLEAN :
          (Receiving(p) /\ ~Designated(p) /\ _handle_presenter_audio(p, has_audio))
          => /\ sent' = <<RoomError(p, "Only presenters can send presenter audio")>>
             /\ UNCHANGED pvars]_vars

\* the step sent a message of the type to q
WasSent(q, type) == \E i \in 1..Len(sent') : sent'[i].to = q /\ sent'[i].type = type

\* the room code is in none of the room tables after the step
RoomGone(r) ==
    /\ r \notin DOMAIN presentation_rooms'
    /\ r \notin DOMAIN room_participants'
    /\ r \notin DOMAIN muted_participants'
    /\ r \notin DOMAIN raised_hands'
    /\ r \notin DOMAIN presenter_connections'

\* C17: when the designated presenter of a room runs end_presentation, every
\* participant of the room is sent presentation_ended and the room code leaves
\* the room tables; a join_presentation for a code that is in no table makes a
\* fresh room: the joiner is its only participant, nobody is muted, no hand
\* is raised
C17_EndPresentationEndsTheRoom ==
    /\ [][\A p \in Pair :
             (Receiving(p) /\ Designated(p) /\ _handle_end_presentation(p))
             => /\ \A q \in room_participants[room_connections[p].room_code] :
                       WasSent(q, "presentation_ended")
                /\ RoomGone(room_connections[p].room_code)]_vars
    /\ [][\A p \in Pair, r \in OneRoom, l \in Languages, b \in BOOLEAN :
             (/\ Receiving(p)
              /\ r \notin DOMAIN presentation_rooms
              /\ _handle_join_presentation(p, r, TRUE, l, b))
             => /\ room_participants'[r] = {p}
                /\ muted_participants'[r] = {}
                /\ raised_hands'[r] = {}]_vars

\* C18: when a connection that joined a room disconnects, its id is afterwards
\* in no room's participant set, muted set or raised-hand set, and it has no
\* language entry
C18_DisconnectLeavesEveryRoom ==
    [][\A p \in Pair :
          (Receiving(p) /\ room_connections[p].room_code # NoRoom /\ disconnect(p))
          => /\ \A r \in DOMAIN room_participants' : p \notin room_participants'[r]
             /\ \A r \in DOMAIN muted_participants' : p \notin muted_participants'[r]
             /\ \A r \in DOMAIN raised_hands' : p \notin raised_hands'[r]
             /\ p \notin DOMAIN participant_languages']_vars

\* C19: when the connection a room has recorded as its presenter disconnects,
\* every other participant of the room is sent presentation_ended and the room
\* code leaves every room table
C19_PresenterDisconnectEndsTheRoom ==
    [][\A p \in Pair, r \in Rooms :
          (/\ Receiving(p)
           /\ r \in DOMAIN presenter_connections
           /\ presenter_connections[r] = p
           /\ disconnect(p))
          => /\ \A q \in room_participants[r] \ {p} : WasSent(q, "presentation_ended")
             /\ RoomGone(r)]_vars

C21_PresenterIsAParticipant ==
    \A r \in DOMAIN presenter_connections :
        /\ r \in DOMAIN room_participants
        /\ presenter_connections[r] \in room_participants[r]

\* C22: a sweep with window T lists exactly the connections whose latest
\* activity is more than T in the past at its scan; each cleanup of a listed
\* connection takes the session the connection stores out of the session
\* table at once; and when the sweep completes, every listed connection is
\* out of the connection table, the sessions those connections stored are
\* out of the session table, and it returns the length of its list
C22_SweepRemovesIdleConnections ==
    /\ [][\A order \in ScanOrders, T \in Windows :
             cleanup_inactive_connections(order, T)
             => \A k \in Conns :
                    (\E j \in 1..Len(sweep'.inactive) : sweep'.inactive[j] = k)
                    <=> (Connected(k) /\ last_activity[k] + T < now)]_vars
    /\ [][(sweep.pc = "scanned" /\ sweep_cleanup
               /\ Connected(sweep.inactive[sweep.i]))
          => LET k == sweep.inactive[sweep.i] IN
             /\ active_connections[k].session_id \notin DOMAIN active_streams'
             /\ \/ k \notin DOMAIN active_connections'
                \/ /\ sweep'.pc = "closing"
                   /\ frame'[Sweeper].op = "close"
                   /\ frame'[Sweeper].sid = active_connections[k].session_id]_vars
    /\ [][(sweep'.pc = "idle" /\ sweep' # sweep)
          => /\ sweep'.returned = Len(sweep'.inactive)
             /\ \A j \in 1..Len(sweep'.inactive) :
                    sweep'.inactive[j] \notin DOMAIN active_connections'
             /\ \A s \in sweep'.sessions : s \notin DOMAIN active_streams']_vars

\* C23: a call of initialize that finishes makes the Coordinator ready and
\* returns True exactly when all three adapters' initialize returned true
\* and the voice-synthesis adapter's version verification passed; when an
\* adapter's initialize returned false or raised, or the verification
\* failed, it returns False and an unready Coordinator stays unready; and
\* the Coordinator never becomes ready in any other step
C23_ReadyOnlyAfterFullInitialization ==
    /\ [][\A a, b, c \in InitResults :
             initialize_finish(a, b, c)
             => IF {a, b, c} = {"true"} /\ verify_model_versions
                THEN is_initialized' /\ last'.ret.kind = "true"
                ELSE /\ last'.op = "initialize" /\ last'.ret.kind = "false"
                     /\ is_initialized' = is_initialized]_vars
    /\ [][(~is_initialized /\ is_initialized')
          => /\ init_pc = "gather"
             /\ last'.op = "initialize" /\ last'.ret.kind = "true"]_vars

\* C23 witness: a call of initialize has returned False and the Coordinator
\* is unready
C23_Witness ==
    /\ ~is_initialized
    /\ init_pc = "done"
    /\ last.op = "initialize"
    /\ last.ret.kind = "false"

\* C24: a step in which a call succeeds returns that call's latency L and
\* sets the rolling average to L when it is the first success and to
\* 0.1 * L + 0.9 * (previous average) otherwise (the average is held in
\* units of 1/Scale ms, and the division by ten leaves no remainder); every
\* other step, a failed call's return included, leaves the average unchanged
C24_RollingAverageLatency ==
    [][IF metrics'.successful_requests # metrics.successful_requests
       THEN /\ metrics'.successful_requests = metrics.successful_requests + 1
            /\ last'.ret.result # None
            /\ last'.ret.result.success
            /\ LET L == last'.ret.result.total_time_ms IN
               IF metrics.successful_requests = 0
               THEN metrics'.average_latency_ms = L * Scale
               ELSE 10 * metrics'.average_latency_ms
                       = L * Scale + 9 * metrics.average_latency_ms
       ELSE metrics'.average_latency_ms = metrics.average_latency_ms]_vars

\* C24 witness: after a first success of 100 ms and a second success of
\* 500 ms the average is 0.1 * 500 + 0.9 * 100 = 140 ms
C24_Witness ==
    /\ metrics.successful_requests = 2
    /\ metrics.average_latency_ms = 140 * Scale
    /\ last.ret.result # None
    /\ last.ret.result.success

\* C25: the value of every quality score call is 0.3 * speech confidence +
\* 0.4 * translation confidence + 0.3 * voice quality, replaced by 0 when
\* that sum is below 0 and by 1 when it is above 1, and so lies in [0, 1]
\* (hundredths here), also for components below 0 or above 1
C25_QualityScoreClamped ==
    quality.called
    => LET sum == 3 * quality.stt_confidence
                     + 4 * quality.translation_confidence
                     + 3 * quality.voice_quality
       IN /\ quality.score = (IF sum < 0 THEN 0 ELSE IF sum > 100 THEN 100 ELSE sum)
          /\ 0 <= quality.score
          /\ quality.score <= 100

\* C25 witness: a call with components 1.5, 1.5 and 1 (sum 1.35) gave 1
C25_Witness ==
    /\ quality.called
    /\ quality.stt_confidence = 15
    /\ quality.translation_confidence = 15
    /\ quality.voice_quality = 10
    /\ quality.score = 100

\* C26: in every state each session of the session table holds fewer
\* buffered chunks than the flush threshold, whatever pushes, closes and
\* flushes are in flight
C26_BufferBelowThreshold ==
    \A s \in DOMAIN active_streams :
        Len(active_streams[s].buffer) < FLUSH_THRESHOLD

\* C26 witness: a session has taken its fifth chunk and its buffer is empty
\* again while the flush of the five chunks is in flight
C26_Witness ==
    \E s \in DOMAIN active_streams, t \in Tasks :
        /\ active_streams[s].chunk_count = FLUSH_THRESHOLD
        /\ active_streams[s].buffer = <<>>
        /\ frame[t].op = "push"
        /\ frame[t].sid = s
        /\ Len(frame[t].audio) = FLUSH_THRESHOLD

\* C27: every step treats the buffer of every session in order and without
\* loss: it leaves the buffer as it is, or appends the one chunk it accepted,
\* or submits the whole buffer with the accepted chunk at its end as one
\* utterance and empties it (threshold flush), or takes the session out of
\* the table and submits the whole buffer, if any, as one utterance (final
\* flush); so the utterances of a session, concatenated in submission order,
\* are the accepted chunks in arrival order
C27_ChunksSubmittedInOrder ==
    [][\A s \in DOMAIN active_streams :
          LET buffer == active_streams[s].buffer
              Submits(op, audio) ==
                  \E t \in Tasks :
                      /\ Free(t)
                      /\ frame'[t].op = op
                      /\ frame'[t].sid = s
                      /\ frame'[t].pc = "stt"
                      /\ frame'[t].audio = audio
          IN  IF s \in DOMAIN active_streams'
              THEN \/ active_streams'[s].buffer = buffer
                   \/ active_streams'[s].buffer = Append(buffer, NextChunk(s))
                   \/ /\ active_streams'[s].buffer = <<>>
                      /\ Submits("push", Join(Append(buffer, NextChunk(s))))
              ELSE \/ buffer = <<>>
                   \/ Submits("close", Join(buffer))]_vars

\* C28: in every state the session table holds at most as many sessions as
\* the ceiling allows; and an open that finds the table at the ceiling
\* returns in that same step, with the capacity error, its caller free
\* again and the table as it was
C28_SessionsWithinCeiling ==
    /\ [](Cardinality(DOMAIN active_streams) <= MAX_CONCURRENT_STREAMS)
    /\ [][\A t \in Clients, u \in Users :
             (/\ is_initialized
              /\ Cardinality(DOMAIN active_streams) >= MAX_CONCURRENT_STREAMS
              /\ create_stream_session(t, u))
             => /\ frame'[t].pc = "idle"
                /\ last'.ret.kind = "raised"
                /\ last'.ret.error = "capacity"
                /\ DOMAIN active_streams' = DOMAIN active_streams]_vars

\* C28 witness: an open has failed for capacity while the table is at the
\* ceiling, a final flush is in flight and an id that is free exists
C28_Witness ==
    /\ last.op = "open"
    /\ last.ret.kind = "raised"
    /\ last.ret.error = "capacity"
    /\ Cardinality(DOMAIN active_streams) = MAX_CONCURRENT_STREAMS
    /\ \E t \in Clients : frame[t].op = "close" /\ frame[t].pc # "idle"
    /\ \E u \in Users : SessionId(u, now) \notin DOMAIN active_streams

\* C29: while the final flush of a close is in flight, the session it closes
\* is in the session table and is counted in metrics.active_streams
C29_SessionStaysDuringFinalFlush ==
    \A t \in Tasks :
        (frame[t].op = "close" /\ frame[t].pc # "idle")
        => /\ frame[t].sid \in DOMAIN active_streams
           /\ metrics.active_streams >= 1

\* C30: in every state, no two coroutines have a Coordinator invocation in
\* flight for the same session: the threshold flushes of pushes and the final
\* flushes of closes that are suspended in an adapter all carry different
\* session ids
C30_OneInvocationPerSession ==
    \A t1, t2 \in Tasks :
        (/\ t1 # t2
         /\ frame[t1].op \in {"push", "close"} /\ frame[t1].pc # "idle"
         /\ frame[t2].op \in {"push", "close"} /\ frame[t2].pc # "idle")
        => frame[t1].sid # frame[t2].sid

\* C31: a translation_result is emitted only for a session that is in the
\* session table: the result of a flush whose session was removed while the
\* flush was in flight is discarded
C31_ResultOfRemovedSessionIsDiscarded ==
    [][\A i \in 1..Len(sent') :
          sent'[i].type = "translation_result"
          => sent'[i].session_id \in DOMAIN active_streams]_vars

\* C32: in every state a connection that stores a session id has a user id;
\* a start_stream on a connection without a user id is answered with the
\* "Not authenticated" error and changes neither the session table nor the
\* connection; and a start_stream answered with stream_started has put a
\* session of the connection's user into the table under the id it stores
\* on the connection
C32_StreamingImpliesAuthenticated ==
    /\ [](\A k \in DOMAIN active_connections :
              active_connections[k].session_id # NoSession
              => active_connections[k].user_id # NoUser)
    /\ [][\A k \in Conns, complete \in BOOLEAN :
             (/\ Connected(k)
              /\ _handle_start_stream(k, complete))
             => IF active_connections[k].user_id = NoUser
                THEN /\ sent' = <<ErrorMsg(k, "Not authenticated")>>
                     /\ active_streams' = active_streams
                     /\ active_connections' = active_connections
                ELSE \/ sent'[1].type = "error"
                     \/ /\ sent'[1].type = "stream_started"
                        /\ sent'[1].session_id \in DOMAIN active_streams'
                        /\ active_streams'[sent'[1].session_id].user_id
                              = active_connections[k].user_id
                        /\ active_connections'[k].session_id = sent'[1].session_id
                        /\ active_connections'[k].user_id
                              = active_connections[k].user_id]_vars

\* C32 witness: a start_stream has just been answered with stream_started on
\* an authenticated connection while another connection is registered and
\* has no user id
C32_Witness ==
    /\ Len(sent) = 1
    /\ sent[1].type = "stream_started"
    /\ Connected(sent[1].to)
    /\ active_connections[sent[1].to].session_id = sent[1].session_id
    /\ active_connections[sent[1].to].user_id # NoUser
    /\ \E k \in DOMAIN active_connections :
           active_connections[k].user_id = NoUser

\* C33: participant_mute, participant_unmute, allow_speak and
\* end_presentation from a connection that is not the designated presenter
\* of its room are answered with an error alone and leave every room table
\* (rooms, participants, muted sets, raised hands, designations) as it was
C33_PresenterOnlyActions ==
    [][\A p \in Pair, participant_id \in Pair \cup {NoMember} :
          (/\ Receiving(p)
           /\ ~Designated(p)
           /\ \/ _handle_participant_mute(p, participant_id)
              \/ _handle_participant_unmute(p, participant_id)
              \/ _handle_allow_speak(p, participant_id)
              \/ _handle_end_presentation(p))
          => /\ Len(sent') = 1
             /\ sent'[1].to = p
             /\ sent'[1].type = "error"
             /\ UNCHANGED <<presentation_rooms, room_participants,
                            muted_participants, raised_hands,
                            presenter_connections>>]_vars

\* the room of connection p has ended and p has not joined since: p still
\* carries the room code and is no participant of a room of that code
Ended(p) ==
    /\ Receiving(p)
    /\ room_connections[p].room_code # NoRoom
    /\ \/ room_connections[p].room_code \notin DOMAIN room_participants
       \/ p \notin room_participants[room_connections[p].room_code]

\* C34: a raise_hand, update_language, participant_mute, participant_unmute,
\* allow_speak or presenter_audio message from a connection whose room has
\* ended, and which has not joined again, changes no room table, also when
\* a fresh room exists under the same code
C34_EndedRoomIsTerminal ==
    [][\A p \in Pair :
          (/\ Ended(p)
           /\ \/ \E raised \in BOOLEAN : _handle_raise_hand(p, raised)
              \/ \E l \in Languages \cup {NoLanguage} : _handle_update_language(p, l)
              \/ \E q \in Pair \cup {NoMember} :
                     \/ _handle_participant_mute(p, q)
                     \/ _handle_participant_unmute(p, q)
                     \/ _handle_allow_speak(p, q)
              \/ \E has_audio \in BOOLEAN : _handle_presenter_audio(p, has_audio))
          => UNCHANGED <<presentation_rooms, room_participants,
                         participant_languages, muted_participants,
                         raised_hands, presenter_connections>>]_vars

\* C35: a raise_hand from a caller whose room has a raised-hand set flips
\* the caller's membership in that set: a caller outside the set is in it
\* afterwards, a caller in the set is out of it afterwards
C35_RaiseHandToggles ==
    [][\A p \in Pair, raised \in BOOLEAN :
          (/\ Receiving(p)
           /\ room_connections[p].room_code \in DOMAIN raised_hands
           /\ _handle_raise_hand(p, raised))
          => LET r == room_connections[p].room_code IN
             p \in raised_hands'[r] <=> p \notin raised_hands[r]]_vars

\* C36: a presenter_audio message that carries audio, from the designated
\* presenter of an existing room, is accepted: it is answered with no error
\* (its audio goes to the room's streaming session, and the result of a
\* flush is distributed to the participants)
C36_PresenterAudioIsAccepted ==
    [][\A p \in Pair :
          (/\ Receiving(p)
           /\ Designated(p)
           /\ room_connections[p].is_presenter
           /\ room_connections[p].room_code \in DOMAIN presentation_rooms
           /\ _handle_presenter_audio(p, TRUE))
          => \A i \in 1..Len(sent') : sent'[i].type # "error"]_vars

\* C37: the chunk counter of a session is 0 when an open puts the session
\* into the table, goes up by one in every step that accepts a push for it
\* (buffered or flushed) and moves in no other step, whatever the flushes
\* return; a close takes the counter as it stands and returns it as
\* chunks_processed, at once or when its final flush ends
C37_ChunksProcessedCountsPushes ==
    /\ [][\A s \in DOMAIN active_streams' :
             LET Opened == /\ last'.op = "open"
                           /\ last'.ret.kind = "session"
                           /\ last'.ret.session_id = s
                 Accepted == \/ /\ last'.op = "push"
                                /\ last'.sid = s
                                /\ last'.ret.kind = "buffering"
                             \/ \E t \in Tasks :
                                    /\ Free(t)
                                    /\ frame'[t].op = "push"
                                    /\ frame'[t].sid = s
                                    /\ frame'[t].pc # "idle"
             IN  active_streams'[s].chunk_count =
                     IF Opened THEN 0
                     ELSE IF Accepted THEN active_streams[s].chunk_count + 1
                     ELSE active_streams[s].chunk_count]_vars
    /\ [][\A t \in Clients, s \in Targets :
             (s \in DOMAIN active_streams /\ close_stream_session(t, s))
             => IF frame'[t].pc = "idle"
                THEN /\ last'.ret.kind = "closed"
                     /\ last'.ret.chunks_processed = active_streams[s].chunk_count
                ELSE frame'[t].chunks = active_streams[s].chunk_count]_vars
    /\ [][\A t \in Clients :
             (frame[t].op = "close" /\ frame[t].pc # "idle")
             => IF frame'[t].pc = "idle"
                THEN /\ last'.ret.kind = "closed"
                     /\ last'.ret.chunks_processed = frame[t].chunks
                ELSE frame'[t].chunks = frame[t].chunks]_vars

\* C37 witness: a close has returned chunks_processed 5 for a session whose
\* five chunks went into a threshold flush
C37_Witness ==
    /\ last.op = "close"
    /\ last.ret.kind = "closed"
    /\ last.ret.chunks_processed = FLUSH_THRESHOLD

\* C38: a connection that the sweep removes when its cleanup resumes from
\* the final flush of the connection's session has had no activity in the
\* current clock second: a message that arrived during the flush keeps the
\* connection in the table
C38_SweepSparesActiveConnections ==
    [][\A k \in Conns :
          (/\ sweep.pc = "closing"
           /\ sweep.inactive[sweep.i] = k
           /\ Connected(k)
           /\ k \notin DOMAIN active_connections')
          => last_activity[k] < now]_vars

\* C39: every entry of the user-to-connection map refers to a connection of
\* the connection table whose authenticated user id is the entry's key
C39_UserMapRefersToOwnConnection ==
    \A u \in DOMAIN user_sessions :
        /\ Connected(user_sessions[u])
        /\ active_connections[user_sessions[u]].user_id = u

\* C40: a step that removes a room, its participant set or its presenter
\* designation is an end_presentation from, or the disconnection of, a
\* connection, and every connection whose end_presentation or disconnection
\* makes the step is the one the room has recorded as its presenter
C40_OnlyPresenterDestroysRoom ==
    [][\A r \in Rooms :
          (/\ r \in DOMAIN presentation_rooms
           /\ \/ r \notin DOMAIN presentation_rooms'
              \/ r \notin DOMAIN room_participants'
              \/ (r \in DOMAIN presenter_connections
                    /\ r \notin DOMAIN presenter_connections'))
          => /\ \E p \in Pair : _handle_end_presentation(p) \/ disconnect(p)
             /\ \A p \in Pair :
                    (_handle_end_presentation(p) \/ disconnect(p))
                    => /\ r \in DOMAIN presenter_connections
                       /\ presenter_connections[r] = p]_vars

====
